---- MODULE Spec2Model ----
(***************************************************************************)
(* rustboy: a Game Boy (DMG) emulator core.                                *)
(*                                                                         *)
(* The machine is the MotherBoard aggregate: the CPU (registers, IME,      *)
(* HALT latch and the three I/O bytes it keeps itself), the interrupt      *)
(* controller, work RAM, high RAM, the PPU and timer registers, the joypad *)
(* latch and an MBC1 cartridge.  Operators take and return one record `m'  *)
(* holding all of it, so that a handler's nested bus calls compose; the    *)
(* variables are that record's fields.                                     *)
(*                                                                         *)
(*   Spec      CPU::reset and CPU::tick over the bus (interrupt dispatch,  *)
(*             HALT, DI/EI/RETI)                                           *)
(*   SpecBus   CPU::read / CPU::write over the address map                 *)
(*   SpecStack PUSH rr / POP rr from any register file                     *)
(*   SpecMbc1  Mbc1::read / Mbc1::write                                    *)
(***************************************************************************)
EXTENDS Integers, Sequences, FiniteSets, TLC

VARIABLES
    registers,     \* cpu.rs Registers: a, f (z n h c), b, c, d, e, h, l, sp, pc
    is_halted,     \* cpu.rs CPU.is_halted
    ime,           \* cpu.rs CPU.ime
    sb, sc, div,   \* cpu.rs CPU.sb / CPU.sc / CPU.div (0xFF01, 0xFF02, 0xFF04)
    interruption,  \* interruption.rs Interruption: interrupts (IF), enables (IE)
    ram,           \* mother_board.rs MotherBoard.ram   (0xC000-0xDFFF)
    stack,         \* mother_board.rs MotherBoard.stack (0xFF80-0xFFFE)
    ppu,           \* ppu.rs PPU: oam, vram and the LCD registers
    timer,         \* timer.rs Timer
    joypad,        \* joypad.rs JoyPad: buttons, cache
    mbc1,          \* cartridges/mbc1.rs Mbc1
    panicked,      \* a panic (unreachable!, unimplemented!, index out of bounds) aborted the run
    started,       \* MotherBoard::run has called cpu.reset()
    nops,          \* number of operations performed so far
    masked,        \* history: DI has executed and no EI or RETI since
    ret,           \* what the last operation was called with and returned
    before         \* history: ret and the registers as the last operation found them

vars == <<registers, is_halted, ime, sb, sc, div, interruption, ram, stack, ppu,
          timer, joypad, mbc1, panicked, started, nops, masked, ret, before>>

----------------------------------------------------------------------------
(* Bounds of the model. *)

\* resets and ticks in one run of Spec
MaxOps == 7

----------------------------------------------------------------------------
(* Machine integers. *)

U8 == 2 ^ 8
U16 == 2 ^ 16

Bit(v, k) == (v \div (2 ^ k)) % 2 = 1

\* v & mask
RECURSIVE And8(_, _)
And8(v, mask) ==
    IF v = 0 \/ mask = 0 THEN 0
    ELSE (v % 2) * (mask % 2) + 2 * And8(v \div 2, mask \div 2)

\* v | mask
Or8(v, mask) == v + mask - And8(v, mask)

wrapping_add(v, n) == (v + n) % U16
wrapping_sub(v, n) == (v - n + U16) % U16

(* A zero-initialised byte array, kept as the function of its non-zero     *)
(* bytes: Get is arr[i], Put is arr[i] = v.                                *)
Zeroed == [i \in {} |-> 0]
Get(arr, i) == IF i \in DOMAIN arr THEN arr[i] ELSE 0
Put(arr, i, v) ==
    [j \in (DOMAIN arr \ {i}) \cup (IF v = 0 THEN {} ELSE {i}) |->
        IF j = i THEN v ELSE arr[j]]

----------------------------------------------------------------------------
(* cpu.rs: Flags <-> u8 *)

FlagsFrom(v) == [z |-> Bit(v, 7), n |-> Bit(v, 6), h |-> Bit(v, 5), c |-> Bit(v, 4)]

U8FromFlags(flags) ==
    (IF flags.z THEN 128 ELSE 0) + (IF flags.n THEN 64 ELSE 0)
    + (IF flags.h THEN 32 ELSE 0) + (IF flags.c THEN 16 ELSE 0)

(* interruption.rs: InterruptFlags / InterruptEnables <-> u8 (same layout) *)

InterruptFlagsFrom(v) ==
    [joypad |-> Bit(v, 4), serial |-> Bit(v, 3), timer |-> Bit(v, 2),
     lcd_stat |-> Bit(v, 1), v_blank |-> Bit(v, 0)]

InterruptEnablesFrom(v) ==
    [joypad |-> Bit(v, 4), serial |-> Bit(v, 3), timer |-> Bit(v, 2),
     lcd_stat |-> Bit(v, 1), v_blank |-> Bit(v, 0)]

U8FromInterruptFlags(flags) ==
    (IF flags.joypad THEN 16 ELSE 0) + (IF flags.serial THEN 8 ELSE 0)
    + (IF flags.timer THEN 4 ELSE 0) + (IF flags.lcd_stat THEN 2 ELSE 0)
    + (IF flags.v_blank THEN 1 ELSE 0)

(* ppu.rs: LcdControl <-> u8 *)

LcdControlFrom(v) ==
    [lcd_enable |-> Bit(v, 7),
     window_tile_map_select |-> IF Bit(v, 6) THEN "Method9C00" ELSE "Method9800",
     window_enable |-> Bit(v, 5),
     tile_data_select |-> IF Bit(v, 4) THEN "Method8000" ELSE "Method8800",
     bg_tile_map_select |-> IF Bit(v, 3) THEN "Method9C00" ELSE "Method9800",
     sprite_size |-> IF Bit(v, 2) THEN "Tall" ELSE "Normal",
     sprite_enable |-> Bit(v, 1),
     bg_win_enable |-> Bit(v, 0)]

U8FromLcdControl(lcdc) ==
    (IF lcdc.lcd_enable THEN 128 ELSE 0)
    + (IF lcdc.window_tile_map_select = "Method9C00" THEN 64 ELSE 0)
    + (IF lcdc.window_enable THEN 32 ELSE 0)
    + (IF lcdc.tile_data_select = "Method8000" THEN 16 ELSE 0)
    + (IF lcdc.bg_tile_map_select = "Method9C00" THEN 8 ELSE 0)
    + (IF lcdc.sprite_size = "Tall" THEN 4 ELSE 0)
    + (IF lcdc.sprite_enable THEN 2 ELSE 0)
    + (IF lcdc.bg_win_enable THEN 1 ELSE 0)

(* timer.rs: TAC <-> u8 *)

TACFrom(v) ==
    [status |-> IF Bit(v, 2) THEN "RUNNING" ELSE "STOPPED",
     clock |-> CASE v % 4 = 0 -> "Hz4096"
                 [] v % 4 = 1 -> "Hz262144"
                 [] v % 4 = 2 -> "Hz65536"
                 [] OTHER -> "Hz16384"]

U8FromTAC(tac) ==
    (IF tac.status = "RUNNING" THEN 4 ELSE 0)
    + (CASE tac.clock = "Hz4096" -> 0
         [] tac.clock = "Hz262144" -> 1
         [] tac.clock = "Hz65536" -> 2
         [] OTHER -> 3)

(* joypad.rs: Buttons <-> u8; a set bit is Unselected, a clear bit Selected *)

ButtonsFrom(v) ==
    [button |-> Bit(v, 5), direction |-> Bit(v, 4), down_start |-> Bit(v, 3),
     up_select |-> Bit(v, 2), left_b |-> Bit(v, 1), right_a |-> Bit(v, 0)]

U8FromButtons(buttons) ==
    (IF buttons.button THEN 32 ELSE 0) + (IF buttons.direction THEN 16 ELSE 0)
    + (IF buttons.down_start THEN 8 ELSE 0) + (IF buttons.up_select THEN 4 ELSE 0)
    + (IF buttons.left_b THEN 2 ELSE 0) + (IF buttons.right_a THEN 1 ELSE 0)

----------------------------------------------------------------------------
(* cartridges/mbc1.rs *)

(* The ROM image handed over by the loader: byte `off' of bank `bank'.  Its  *)
(* content is the program's input; only the bank structure matters here.    *)
RomImage(bank, off) == (off + 37 * bank) % U8

Mbc1New(num_rom_banks, num_ram_banks) ==
    [num_rom_banks |-> num_rom_banks,
     ram_banks |-> [k \in 0 .. num_ram_banks - 1 |-> Zeroed],
     current_rom_bank |-> 1,
     current_ram_bank |-> IF num_ram_banks > 0 THEN 1 ELSE 0,
     bank_mode |-> "Rom",
     ram_mode |-> "Disable"]

\* the read indexes a bank that does not exist
Mbc1ReadPanics(c, address) ==
    CASE address \in \h0000 .. \h3FFF -> c.num_rom_banks < 1
      [] address \in \h4000 .. \h7FFF -> c.current_rom_bank >= c.num_rom_banks
      [] address \in \hA000 .. \hBFFF ->
            c.current_ram_bank > 0 /\ c.current_ram_bank \notin DOMAIN c.ram_banks
      [] OTHER -> TRUE

Mbc1Read(c, address) ==
    CASE address \in \h0000 .. \h3FFF -> RomImage(0, address)
      [] address \in \h4000 .. \h7FFF -> RomImage(c.current_rom_bank, address - \h4000)
      [] OTHER ->
            IF c.current_ram_bank > 0
            THEN Get(c.ram_banks[c.current_ram_bank], address - \hA000)
            ELSE 0

\* unimplemented!() on the upper-bits write, or a RAM bank that does not exist
Mbc1WritePanics(c, address, data) ==
    CASE address \in \h0000 .. \h3FFF -> FALSE
      [] address \in \h4000 .. \h5FFF ->
            c.bank_mode = "Rom" /\ And8(data, \h03) \notin {\h00, \h01, \h10, \h11}
      [] address \in \h6000 .. \h7FFF -> FALSE
      [] address \in \hA000 .. \hBFFF ->
            c.ram_mode = "Enable" /\ c.current_ram_bank \notin DOMAIN c.ram_banks
      [] OTHER -> TRUE

Mbc1Write(c, address, data) ==
    CASE address \in \h0000 .. \h1FFF ->
            [c EXCEPT !.ram_mode = IF And8(data, \h0F) = \h0A THEN "Enable" ELSE "Disable"]
      [] address \in \h2000 .. \h3FFF ->
            [c EXCEPT !.current_rom_bank =
                Or8(And8(c.current_rom_bank, \b1100000), And8(And8(data, \h1F), \h7F))]
      [] address \in \h4000 .. \h5FFF ->
            IF c.bank_mode = "Rom"
            THEN CASE And8(data, \h03) = \h00 ->
                        [c EXCEPT !.current_rom_bank = And8(c.current_rom_bank, \b0011111)]
                   [] And8(data, \h03) = \h01 ->
                        [c EXCEPT !.current_rom_bank =
                            Or8(And8(c.current_rom_bank, \b1011111), \b0100000)]
                   [] And8(data, \h03) = \h10 ->
                        [c EXCEPT !.current_rom_bank =
                            Or8(And8(c.current_rom_bank, \b0111111), \b1000000)]
                   [] And8(data, \h03) = \h11 ->
                        [c EXCEPT !.current_rom_bank = Or8(c.current_rom_bank, \b1100000)]
                   [] OTHER -> c
            ELSE [c EXCEPT !.current_ram_bank = And8(data, \h03)]
      [] address \in \h6000 .. \h7FFF ->
            [c EXCEPT !.bank_mode = IF And8(data, \h01) = 0 THEN "Rom" ELSE "Ram"]
      [] address \in \hA000 .. \hBFFF ->
            IF c.ram_mode = "Enable" /\ c.current_ram_bank \in DOMAIN c.ram_banks
            THEN [c EXCEPT !.ram_banks[c.current_ram_bank] =
                        Put(c.ram_banks[c.current_ram_bank], address - \hA000, data)]
            ELSE c
      [] OTHER -> c

----------------------------------------------------------------------------
(* joypad.rs: JoyPad::handle_key_event as called by read(0xFF00).  `cache' *)
(* is the latched key ("" for None), `rx' the lines the input thread sent, *)
(* each a sequence of characters; "NUL" stands for the character '\0'.     *)

KeyOf(line) == IF Len(line) > 0 THEN Head(line) ELSE "NUL"

handle_key_event(j, data) ==
    LET c == IF j.cache # "" THEN j.cache
             ELSE IF Len(j.rx) > 0 THEN KeyOf(Head(j.rx)) ELSE "NUL"
        sel == And8(U8FromButtons(j.buttons), \h30)
    IN IF c = "NUL" THEN Or8(data, \h0F)
       ELSE CASE sel = \h00 -> data
              [] sel = \h10 ->
                    CASE c = "\n" -> Or8(data, \b00000111)
                      [] c = " " -> Or8(data, \b00001011)
                      [] c = "b" -> Or8(data, \b00001101)
                      [] c = "a" -> Or8(data, \b00001110)
                      [] OTHER -> Or8(data, \h0F)
              [] sel = \h20 ->
                    CASE c = "j" -> Or8(data, \b00000111)
                      [] c = "k" -> Or8(data, \b00001011)
                      [] c = "l" -> Or8(data, \b00001110)
                      [] c = "h" -> Or8(data, \b00001101)
                      [] OTHER -> Or8(data, \h0F)
              [] OTHER -> Or8(data, \h0F)

JoyPadRead(j) == handle_key_event(j, U8FromButtons(j.buttons))

\* JoyPad::write dropping the latched key on every write
JoyPadWriteClearing(j, data) == [j EXCEPT !.buttons = ButtonsFrom(data), !.cache = ""]

JoyPadWrite(j, data) ==
    [j EXCEPT !.buttons = ButtonsFrom(data),
              !.cache = IF data = \h30 THEN "" ELSE j.cache]

\* what a read of 0xFF00 leaves behind: try_recv takes a line, a key is latched
JoyPadAfterRead(j) ==
    IF j.cache # "" THEN j
    ELSE IF Len(j.rx) = 0 THEN j
    ELSE [j EXCEPT !.rx = Tail(j.rx),
                   !.cache = IF KeyOf(Head(j.rx)) = "NUL" THEN "" ELSE KeyOf(Head(j.rx))]

----------------------------------------------------------------------------
(* ppu.rs, timer.rs, interruption.rs: impl IO *)

PPURead(p, address) ==
    CASE address \in \hFE00 .. \hFE9F -> Get(p.oam, address - \hFE00)
      [] address \in \h8000 .. \h9FFF -> Get(p.vram, address - \h8000)
      [] address = \hFF40 -> U8FromLcdControl(p.lcdc)
      [] address = \hFF41 -> p.stat
      [] address = \hFF42 -> p.scy
      [] address = \hFF43 -> p.scx
      [] address = \hFF44 -> p.ly
      [] address = \hFF45 -> p.lyc
      [] address = \hFF47 -> p.bgp
      [] address = \hFF48 -> p.obp0
      [] address = \hFF49 -> p.obp1
      [] address = \hFF4A -> p.wy
      [] address = \hFF4B -> p.wx
      [] OTHER -> 0

\* unreachable!() in PPU::read, or LY no longer fitting a byte
PPUReadPanics(p, address) ==
    \/ ~(address \in \hFE00 .. \hFE9F \/ address \in \h8000 .. \h9FFF
          \/ address \in \hFF40 .. \hFF4B)
    \/ address = \hFF46
    \/ address = \hFF44 /\ p.ly >= U8

TimerRead(t, address) ==
    CASE address = \hFF04 -> t.div
      [] address = \hFF05 -> t.tima
      [] address = \hFF06 -> t.tma
      [] OTHER -> U8FromTAC(t.tac)

TimerWrite(t, address, data) ==
    CASE address = \hFF04 -> [t EXCEPT !.div = 0]
      [] address = \hFF05 -> [t EXCEPT !.tima = data]
      [] address = \hFF06 -> [t EXCEPT !.tma = data]
      [] OTHER -> [t EXCEPT !.tac = TACFrom(data)]

InterruptionRead(i, address) ==
    CASE address = \hFF0F -> U8FromInterruptFlags(i.interrupts)
      [] OTHER -> U8FromInterruptFlags(i.interrupts)

InterruptionWrite(i, address, data) ==
    CASE address = \hFF0F -> [i EXCEPT !.interrupts = InterruptFlagsFrom(data)]
      [] OTHER -> [i EXCEPT !.enables = InterruptEnablesFrom(data)]

----------------------------------------------------------------------------
(* mother_board.rs: impl Bus for MotherBoard *)

\* a mirror that is one 4 KiB half off
EchoOfHalf(address) == address - \h1000

\* the work-RAM address an echo address (0xE000-0xFDFF) stands for
EchoOf(address) == address - \h2000

RECURSIVE BusRead(_, _)
BusRead(m, address) ==
    CASE address \in \h0000 .. \h7FFF \/ address \in \hA000 .. \hBFFF ->
            Mbc1Read(m.mbc1, address)
      [] address \in \h8000 .. \h9FFF \/ address \in \hFE00 .. \hFE9F
         \/ address \in \hFF40 .. \hFF4B ->
            PPURead(m.ppu, address)
      [] address \in \hC000 .. \hDFFF -> Get(m.ram, address - \hC000)
      [] address \in \hE000 .. \hFDFF -> BusRead(m, EchoOf(address))
      [] address \in {\hFF0F, \hFFFF} -> InterruptionRead(m.interruption, address)
      [] address = \hFF00 -> JoyPadRead(m.joypad)
      [] address \in \hFF05 .. \hFF07 -> TimerRead(m.timer, address)
      [] address \in \hFF10 .. \hFF3F -> 0
      [] address \in \hFF80 .. \hFFFE -> Get(m.stack, address - \hFF80)
      [] OTHER -> 0

\* the read panics: no arm of the match, or a component's own panic
BusReadPanics(m, address) ==
    CASE address \in \h0000 .. \h7FFF \/ address \in \hA000 .. \hBFFF ->
            Mbc1ReadPanics(m.mbc1, address)
      [] address \in \h8000 .. \h9FFF \/ address \in \hC000 .. \hFE9F -> FALSE
      [] address \in {\hFF00, \hFF0F, \hFFFF} -> FALSE
      [] address \in \hFF05 .. \hFF07 \/ address \in \hFF10 .. \hFF3F
         \/ address \in \hFF80 .. \hFFFE -> FALSE
      [] address \in \hFF40 .. \hFF4B -> PPUReadPanics(m.ppu, address)
      [] OTHER -> TRUE

(* PPU::write.  MotherBoard::write holds ppu.borrow_mut() across the call,  *)
(* so the bus reads of the OAM DMA (0xFF46) panic when they come back to    *)
(* the PPU (VRAM, OAM, LCD registers), and when the bus read itself panics. *)
PPUWrite(m, address, data) ==
    LET p == m.ppu
        src_start == data * \h100
        byte(a) == BusRead(m, a)
        fails(a) ==
            \/ a \in \h8000 .. \h9FFF \/ a \in \hFE00 .. \hFE9F \/ a \in \hFF40 .. \hFF4B
            \/ BusReadPanics(m, a)
        first(stops) == CHOOSE k \in stops : \A j \in stops : k <= j
        \* the copy loop, left by a panic at its n-th read (n = 0xA0: it completes)
        dma(n) ==
            [m EXCEPT !.panicked = n < \hA0,
                      !.ppu.oam =
                          [i \in {k \in 0 .. \h9F : IF k < n THEN byte(src_start + k) # 0
                                                   ELSE k \in DOMAIN p.oam}
                           |-> IF i < n THEN byte(src_start + i) ELSE p.oam[i]]]
    IN CASE address \in \hFE00 .. \hFE9F ->
                [m EXCEPT !.ppu.oam = Put(p.oam, address - \hFE00, data)]
         [] address \in \h8000 .. \h9FFF ->
                [m EXCEPT !.ppu.vram = Put(p.vram, address - \h8000, data)]
         [] address = \hFF40 -> [m EXCEPT !.ppu.lcdc = LcdControlFrom(data)]
         [] address = \hFF41 -> [m EXCEPT !.ppu.stat = data]
         [] address = \hFF42 -> [m EXCEPT !.ppu.scy = data]
         [] address = \hFF43 -> [m EXCEPT !.ppu.scx = data]
         [] address = \hFF44 -> [m EXCEPT !.ppu.ly = data]
         [] address = \hFF45 -> [m EXCEPT !.ppu.lyc = data]
         [] address = \hFF46 ->
                dma(first({k \in 0 .. \h9F : fails(src_start + k)} \cup {\hA0}))
         [] address = \hFF47 -> [m EXCEPT !.ppu.bgp = data]
         [] address = \hFF48 -> [m EXCEPT !.ppu.obp0 = data]
         [] address = \hFF49 -> [m EXCEPT !.ppu.obp1 = data]
         [] address = \hFF4A -> [m EXCEPT !.ppu.wy = data]
         [] address = \hFF4B -> [m EXCEPT !.ppu.wx = data]
         [] OTHER -> [m EXCEPT !.panicked = TRUE]

RECURSIVE BusWrite(_, _, _)
BusWrite(m, address, data) ==
    CASE address \in \h0000 .. \h7FFF \/ address \in \hA000 .. \hBFFF ->
            [m EXCEPT !.mbc1 = Mbc1Write(m.mbc1, address, data),
                      !.panicked = Mbc1WritePanics(m.mbc1, address, data)]
      [] address \in \h8000 .. \h9FFF \/ address \in \hFE00 .. \hFE9F
         \/ address \in \hFF40 .. \hFF4B ->
            PPUWrite(m, address, data)
      [] address \in \hC000 .. \hDFFF -> [m EXCEPT !.ram = Put(m.ram, address - \hC000, data)]
      [] address \in \hE000 .. \hFDFF -> BusWrite(m, EchoOf(address), data)
      [] address \in {\hFF0F, \hFFFF} ->
            [m EXCEPT !.interruption = InterruptionWrite(m.interruption, address, data)]
      [] address = \hFF00 -> [m EXCEPT !.joypad = JoyPadWrite(m.joypad, data)]
      [] address \in \hFF05 .. \hFF07 ->
            [m EXCEPT !.timer = TimerWrite(m.timer, address, data)]
      [] address \in \hFF10 .. \hFF3F -> m
      [] address \in \hFF80 .. \hFFFE ->
            [m EXCEPT !.stack = Put(m.stack, address - \hFF80, data)]
      [] OTHER -> [m EXCEPT !.panicked = TRUE]

----------------------------------------------------------------------------
(* ppu.rs: Sprite::oam_scan, Sprite::new and the pixel mixing of            *)
(* PPU::scan_line.  An Option is a record with the field `some'.            *)

None == [some |-> FALSE]
Some(v) == [some |-> TRUE, v |-> v]

\* impl From<SpriteSize> for u16
SpriteHeight(sprite_size) == IF sprite_size = "Tall" THEN 16 ELSE 8

\* Sprite::new
SpriteNew(bytes, ly, lcdc) ==
    LET sprite == [y_position |-> bytes[1], x_position |-> bytes[2],
                   tile_number |-> bytes[3], flags |-> bytes[4]]
    IN IF Len(bytes) # 4 THEN None
       ELSE IF sprite.x_position <= 0 \/ 168 < sprite.x_position THEN None
       ELSE IF ly + 16 < sprite.y_position THEN None
       ELSE IF ly + 16 >= sprite.y_position + SpriteHeight(lcdc.sprite_size) THEN None
       ELSE Some(sprite)

\* oam.chunks(4)
Chunks(oam) ==
    [i \in 1 .. 40 |-> <<Get(oam, 4 * i - 4), Get(oam, 4 * i - 3),
                         Get(oam, 4 * i - 2), Get(oam, 4 * i - 1)>>]

\* the loop of oam_scan without its break
RECURSIVE oam_scan_all(_, _, _, _)
oam_scan_all(chunks, sprite_buffer, ly, lcdc) ==
    CASE chunks = <<>> -> sprite_buffer
      [] chunks # <<>> /\ ~SpriteNew(Head(chunks), ly, lcdc).some ->
            oam_scan_all(Tail(chunks), sprite_buffer, ly, lcdc)
      [] OTHER ->
            oam_scan_all(Tail(chunks), Append(sprite_buffer, SpriteNew(Head(chunks), ly, lcdc).v),
                         ly, lcdc)

\* the loop of Sprite::oam_scan over the chunks left, sprite_buffer so far:
\* the first half of the chunks and then the rest. The loop breaks at the
\* push that brings sprite_buffer to 10, so the chunks met with 10 sprites
\* in the buffer are the chunks after the break
RECURSIVE oam_scan_loop(_, _, _, _)
oam_scan_loop(chunks, sprite_buffer, ly, lcdc) ==
    CASE Len(sprite_buffer) >= 10 \/ chunks = <<>> -> sprite_buffer
      [] Len(sprite_buffer) < 10 /\ Len(chunks) = 1 ->
            IF ~SpriteNew(Head(chunks), ly, lcdc).some THEN sprite_buffer
            ELSE Append(sprite_buffer, SpriteNew(Head(chunks), ly, lcdc).v)
      [] OTHER ->
            oam_scan_loop(SubSeq(chunks, Len(chunks) \div 2 + 1, Len(chunks)),
                          oam_scan_loop(SubSeq(chunks, 1, Len(chunks) \div 2),
                                        sprite_buffer, ly, lcdc),
                          ly, lcdc)

\* Sprite::oam_scan
oam_scan(oam, ly, lcdc) == oam_scan_loop(Chunks(oam), <<>>, ly, lcdc)

\* the mixing that lets the sprite pixel win whenever it is not White
mix_ignoring_priority(bg_pixel, sp_pixel) ==
    IF ~sp_pixel.some THEN bg_pixel
    ELSE IF sp_pixel.v.color = "White" THEN bg_pixel
    ELSE sp_pixel.v

\* PPU::scan_line: `let pixel = match sp_pixel { ... }'
mix(bg_pixel, sp_pixel) ==
    IF ~sp_pixel.some THEN bg_pixel
    ELSE IF sp_pixel.v.color = "White" THEN bg_pixel
    ELSE IF sp_pixel.v.background_priority /\ bg_pixel.color # "White" THEN bg_pixel
    ELSE sp_pixel.v

----------------------------------------------------------------------------
(* ppu.rs: PPU::tick.  `lcd' counts the calls of LCD::draw.  The frame      *)
(* buffer and the pixel FIFOs hold pixels only; of PPU::scan_line the model *)
(* keeps whether it returns: the column loop pushes 8 - SCX % 8 pixels per  *)
(* fetched tile and tests rx only between tiles, so with SCX % 8 in {1, 2}  *)
(* it indexes column 160 of a visible line and panics.                      *)

SCANLINE_CYCLE == 456
HEIGHT_LCD == 144
HEIGHT_LCD_MARGIN == 10

ScanLinePanics(p) == p.ly < HEIGHT_LCD /\ p.scx % 8 \in {1, 2}

\* PPU::tick from `self.ly += 1' on, raising V-Blank one line late
PPUNextLineLate(m, ly) ==
    [(IF ly = HEIGHT_LCD + 1
      THEN BusWrite(m, \hFF0F, Or8(BusRead(m, \hFF0F), \b00000001))
      ELSE m)
     EXCEPT !.ppu.ly = IF ly >= HEIGHT_LCD + HEIGHT_LCD_MARGIN THEN 0 ELSE ly,
            !.ppu.lcd = IF ly >= HEIGHT_LCD + HEIGHT_LCD_MARGIN THEN @ + 1 ELSE @]

\* PPU::tick from `self.ly += 1' on: ly is the incremented line
PPUNextLine(m, ly) ==
    [(IF ly = HEIGHT_LCD
      THEN BusWrite(m, \hFF0F, Or8(BusRead(m, \hFF0F), \b00000001))
      ELSE m)
     EXCEPT !.ppu.ly = IF ly >= HEIGHT_LCD + HEIGHT_LCD_MARGIN THEN 0 ELSE ly,
            !.ppu.lcd = IF ly >= HEIGHT_LCD + HEIGHT_LCD_MARGIN THEN @ + 1 ELSE @]

\* PPU::tick starting a line only once the clock has passed the target
PPUTickStrict(m, cycle) ==
    IF m.panicked THEN m
    ELSE IF m.ppu.clock_next_target < m.ppu.clock + cycle
    THEN IF ScanLinePanics(m.ppu)
         THEN [m EXCEPT !.ppu.clock = @ + cycle,
                        !.ppu.clock_next_target = @ + SCANLINE_CYCLE,
                        !.panicked = TRUE]
         ELSE PPUNextLine([m EXCEPT !.ppu.clock = @ + cycle,
                                    !.ppu.clock_next_target = @ + SCANLINE_CYCLE],
                          m.ppu.ly + 1)
    ELSE [m EXCEPT !.ppu.clock = @ + cycle]

PPUTick(m, cycle) ==
    IF m.panicked THEN m
    ELSE IF m.ppu.clock_next_target <= m.ppu.clock + cycle
    THEN IF ScanLinePanics(m.ppu)
         THEN [m EXCEPT !.ppu.clock = @ + cycle,
                        !.ppu.clock_next_target = @ + SCANLINE_CYCLE,
                        !.panicked = TRUE]
         ELSE PPUNextLine([m EXCEPT !.ppu.clock = @ + cycle,
                                    !.ppu.clock_next_target = @ + SCANLINE_CYCLE],
                          m.ppu.ly + 1)
    ELSE [m EXCEPT !.ppu.clock = @ + cycle]

----------------------------------------------------------------------------
(* arithmetic.rs: impl ArithmeticUtil<u8> for u8, ToSigned, AddSigned *)

calc_half_carry(self, rhs) ==
    And8(And8(self, \h0F) + And8(rhs, \h0F), \h10) = \h10

calc_carry(self, rhs) ==
    ((And8(self, \hFF) + And8(rhs, \hFF)) \div \h100) % 2 = 1

to_signed_u16(self) ==
    IF And8(self, \h80) = 0 THEN self ELSE self + \hFF00

add_signed_u8(self, rhs) == wrapping_add(self, to_signed_u16(rhs))

(* ppu.rs: the addresses of the tile map and of the tile data.              *)

WIDTH_LCD == 160
WIDTH_TILE == 8
HEIGHT_TILE == 8

\* fn tile_number_address
tile_number_address(base_address, ly, rx, scx, scy) ==
    LET offset_x == (rx \div WIDTH_TILE) + ((scx \div WIDTH_TILE) % 32)
        offset_y == 32 * (((ly + scy) % 256) \div HEIGHT_TILE)
    IN base_address + ((offset_x + offset_y) % 1024)

\* tile_number_to_address reading the tile number as unsigned under both methods
tile_number_to_address_unsigned(tile_number, method, ly, scy) ==
    (IF method = "Method8000" THEN \h8000 ELSE \h9000)
       + ((tile_number * 16) % U16) + 2 * ((ly + scy) % HEIGHT_TILE)

\* fn tile_number_to_address
tile_number_to_address(tile_number, method, ly, scy) ==
    (IF method = "Method8000"
     THEN \h8000 + ((tile_number * 16) % U16)
     ELSE wrapping_add(\h9000, (to_signed_u16(tile_number) * 16) % U16))
       + 2 * ((ly + scy) % HEIGHT_TILE)

----------------------------------------------------------------------------
(* timer.rs: Timer::tick *)

CPU_CLOCK == 4194304
CLOCK_DIV == 16384

\* Clock::divide
divide(clock) ==
    CASE clock = "Hz4096" -> CPU_CLOCK \div 4096
      [] clock = "Hz16384" -> CPU_CLOCK \div 16384
      [] clock = "Hz65536" -> CPU_CLOCK \div 65536
      [] OTHER -> CPU_CLOCK \div 262144

increment_div(t, cycle) ==
    IF t.div_tmp + cycle >= CPU_CLOCK \div CLOCK_DIV
    THEN [t EXCEPT !.div = (@ + 1) % U8,
                   !.div_tmp = @ + cycle - CPU_CLOCK \div CLOCK_DIV]
    ELSE [t EXCEPT !.div_tmp = @ + cycle]

\* increment_tima whose overflow leaves only the timer request in IF
increment_tima_lone_request(m, cycle) ==
    IF m.timer.tima_tmp + cycle >= divide(m.timer.tac.clock)
    THEN [(IF calc_carry(m.timer.tima, 1)
           THEN BusWrite([m EXCEPT !.timer.tima = m.timer.tma], \hFF0F, \b00000100)
           ELSE [m EXCEPT !.timer.tima = (@ + 1) % U8])
          EXCEPT !.timer.tima_tmp = @ + cycle - divide(m.timer.tac.clock)]
    ELSE [m EXCEPT !.timer.tima_tmp = @ + cycle]

increment_tima(m, cycle) ==
    IF m.timer.tima_tmp + cycle >= divide(m.timer.tac.clock)
    THEN [(IF calc_carry(m.timer.tima, 1)
           THEN BusWrite([m EXCEPT !.timer.tima = m.timer.tma], \hFF0F,
                         Or8(BusRead(m, \hFF0F), \b00000100))
           ELSE [m EXCEPT !.timer.tima = (@ + 1) % U8])
          EXCEPT !.timer.tima_tmp = @ + cycle - divide(m.timer.tac.clock)]
    ELSE [m EXCEPT !.timer.tima_tmp = @ + cycle]

TimerTick(m, cycle) ==
    IF m.panicked THEN m
    ELSE IF m.timer.tac.status = "RUNNING"
    THEN increment_tima([m EXCEPT !.timer = increment_div(@, cycle)], cycle)
    ELSE [m EXCEPT !.timer = increment_div(@, cycle)]

----------------------------------------------------------------------------
(* cpu.rs: CPU::read, CPU::write.  A call made after a panic never happens. *)

\* the I/O addresses whose arm of CPU::read and CPU::write goes to the bus
BusIO ==
    {\hFF00, \hFF0F} \cup (\hFF05 .. \hFF07) \cup (\hFF10 .. \hFF3F) \cup (\hFF40 .. \hFF4B)

CpuReadPanics(m, address) ==
    CASE address \in \hFEA0 .. \hFEFF -> FALSE
      [] address \in (\hFF00 .. \hFF7F) \ BusIO -> FALSE
      [] OTHER -> BusReadPanics(m, address)

CpuRead(m, address) ==
    CASE address \in \hFEA0 .. \hFEFF -> 0
      [] address = \hFF01 -> m.sb
      [] address = \hFF02 -> m.sc
      [] address = \hFF04 -> m.div
      [] address \in (\hFF00 .. \hFF7F) \ BusIO -> 0
      [] OTHER -> BusRead(m, address)

\* the machine after CPU::read(address): a panic, or the joypad's latch
AfterCpuRead(m, address) ==
    IF m.panicked THEN m
    ELSE IF CpuReadPanics(m, address) THEN [m EXCEPT !.panicked = TRUE]
    ELSE IF address = \hFF00 THEN [m EXCEPT !.joypad = JoyPadAfterRead(m.joypad)]
    ELSE m

CpuWrite(m, address, data) ==
    IF m.panicked THEN m
    ELSE CASE address \in \hFEA0 .. \hFEFF -> m
           [] address = \hFF01 -> [m EXCEPT !.sb = data]
           [] address = \hFF02 -> [m EXCEPT !.sc = data]
           [] address = \hFF04 -> [m EXCEPT !.div = data]
           [] address \in (\hFF00 .. \hFF7F) \ BusIO -> m
           [] OTHER -> BusWrite(m, address, data)

----------------------------------------------------------------------------
(* cpu.rs: interrupt dispatch *)

check_interrupt(m) ==
    LET interrupts == InterruptFlagsFrom(CpuRead(m, \hFF0F))
        enables == InterruptEnablesFrom(CpuRead(m, \hFFFF))
    IN IF interrupts.v_blank /\ enables.v_blank THEN "VBlank"
       ELSE IF interrupts.lcd_stat /\ enables.lcd_stat THEN "LcdStatus"
       ELSE IF interrupts.timer /\ enables.timer THEN "Timer"
       ELSE IF interrupts.serial /\ enables.serial THEN "Serial"
       ELSE IF interrupts.joypad /\ enables.joypad THEN "Joypad"
       ELSE "None"

\* interruption.rs Peripheral::jump_address
jump_address(p) ==
    CASE p = "Joypad" -> \h0060
      [] p = "Serial" -> \h0058
      [] p = "Timer" -> \h0050
      [] p = "LcdStatus" -> \h0048
      [] OTHER -> \h0040

\* reset_interrupt clearing every bit of IF
reset_interrupt_all(m, p) == CpuWrite(m, \hFF0F, 0)

reset_interrupt(m, p) ==
    CpuWrite(m, \hFF0F,
             And8(CpuRead(m, \hFF0F),
                  CASE p = "VBlank" -> \b00011110
                    [] p = "LcdStatus" -> \b00011101
                    [] p = "Timer" -> \b00011011
                    [] p = "Serial" -> \b00010111
                    [] OTHER -> \b00001111))

handle_interruption(m) ==
    LET interrupt == check_interrupt(m)
        sp == m.registers.sp
        pc == m.registers.pc
        pushed == CpuWrite(CpuWrite([m EXCEPT !.is_halted = FALSE],
                                    wrapping_sub(sp, 1), And8(pc \div \h100, \hFF)),
                           wrapping_sub(sp, 2), And8(pc, \h00FF))
    IN IF interrupt = "None" THEN m
       ELSE IF ~m.ime THEN [m EXCEPT !.is_halted = FALSE]
       ELSE [reset_interrupt([pushed EXCEPT !.registers.sp = wrapping_sub(sp, 2),
                                            !.ime = FALSE], interrupt)
                EXCEPT !.registers.pc = jump_address(interrupt)]

----------------------------------------------------------------------------
(* cpu.rs: fetch and the opcode handlers.  The cartridge's program is the   *)
(* run's input: a fetch from ROM (0x0000-0x7FFF) yields the input byte      *)
(* `byte', a fetch from anywhere else reads the bus.  A handler returns the *)
(* machine and its cycle count.                                             *)

fetch(m, byte) ==
    LET pc == m.registers.pc
        after == AfterCpuRead(m, pc)
    IN [m |-> [after EXCEPT !.registers.pc = wrapping_add(pc, 1)],
        byte |-> IF pc \in \h0000 .. \h7FFF THEN byte ELSE CpuRead(m, pc)]

Done(m, cycle) == [m |-> m, cycle |-> cycle]

nop_0x00(m) == Done(m, 4)

ld_a_d8_0x3e(m, in) ==
    LET d8 == fetch(m, in[2])
    IN Done([d8.m EXCEPT !.registers.a = d8.byte], 8)

halt_0x76(m) ==
    Done([m EXCEPT !.is_halted = TRUE, !.registers.pc = wrapping_add(m.registers.pc, 1)], 4)

\* POP BC / DE / HL: hi and lo name the two registers of the pair
pop_rr(m, hi, lo) ==
    LET sp == m.registers.sp
    IN Done([AfterCpuRead(AfterCpuRead(m, wrapping_add(sp, 1)), sp)
                EXCEPT !.registers[hi] = CpuRead(m, wrapping_add(sp, 1)),
                       !.registers[lo] = CpuRead(m, sp),
                       !.registers.sp = wrapping_add(sp, 2)], 12)

\* a PUSH that stores the low byte first
push_rr_low_first(m, hi, lo) ==
    LET sp == m.registers.sp
    IN Done([CpuWrite(CpuWrite(m, wrapping_sub(sp, 1), m.registers[lo]),
                      wrapping_sub(sp, 2), m.registers[hi])
                EXCEPT !.registers.sp = wrapping_sub(sp, 2)], 16)

\* PUSH BC / DE / HL
push_rr(m, hi, lo) ==
    LET sp == m.registers.sp
    IN Done([CpuWrite(CpuWrite(m, wrapping_sub(sp, 1), m.registers[hi]),
                      wrapping_sub(sp, 2), m.registers[lo])
                EXCEPT !.registers.sp = wrapping_sub(sp, 2)], 16)

reti_0xd9(m) ==
    LET sp == m.registers.sp
    IN Done([AfterCpuRead(AfterCpuRead(m, sp), wrapping_add(sp, 1))
                EXCEPT !.registers.sp = wrapping_add(sp, 2),
                       !.registers.pc = CpuRead(m, wrapping_add(sp, 1)) * \h100 + CpuRead(m, sp),
                       !.ime = TRUE], 16)

ldh_a8_a_0xe0(m, in) ==
    LET a8 == fetch(m, in[2])
    IN Done(CpuWrite(a8.m, \hFF00 + a8.byte, a8.m.registers.a), 12)

pop_af_0xf1(m) ==
    LET sp == m.registers.sp
    IN Done([AfterCpuRead(AfterCpuRead(m, wrapping_add(sp, 1)), sp)
                EXCEPT !.registers.a = CpuRead(m, wrapping_add(sp, 1)),
                       !.registers.f = FlagsFrom(CpuRead(m, sp)),
                       !.registers.sp = wrapping_add(sp, 2)], 12)

di_0xf3(m) == Done([m EXCEPT !.ime = FALSE], 4)

push_af_0xf5(m) ==
    LET sp == m.registers.sp
    IN Done([CpuWrite(CpuWrite(m, wrapping_sub(sp, 1), m.registers.a),
                      wrapping_sub(sp, 2), U8FromFlags(m.registers.f))
                EXCEPT !.registers.sp = wrapping_sub(sp, 2)], 16)

ei_0xfb(m) == Done([m EXCEPT !.ime = TRUE], 4)

\* ADD A,v as every add_a_* handler does it, with the H flag taken from
\* the carry out of bit 7
add_a_h_from_carry(m, v, cycle) ==
    Done([m EXCEPT !.registers.f = [z |-> (m.registers.a + v) % U8 = 0,
                                    n |-> FALSE,
                                    h |-> calc_carry(m.registers.a, v),
                                    c |-> calc_carry(m.registers.a, v)],
                   !.registers.a = (@ + v) % U8], cycle)

\* ADD A,v: the body shared by add_a_b_0x80 .. add_a_a_0x87 and add_a_d8_0xc6
add_a(m, v, cycle) ==
    Done([m EXCEPT !.registers.f = [z |-> (m.registers.a + v) % U8 = 0,
                                    n |-> FALSE,
                                    h |-> calc_half_carry(m.registers.a, v),
                                    c |-> calc_carry(m.registers.a, v)],
                   !.registers.a = (@ + v) % U8], cycle)

\* Registers::hl
hl(r) == r.h * \h100 + r.l

add_a_hl_0x86(m) ==
    add_a(AfterCpuRead(m, hl(m.registers)), CpuRead(m, hl(m.registers)), 8)

\* add_a_d8_0xc6, d8 being the result of its fetch
add_a_d8_0xc6(d8) == add_a(d8.m, d8.byte, 8)

\* `self.registers.f.c as u8'
carry_in(m) == IF m.registers.f.c THEN 1 ELSE 0

\* `let rhs = x.wrapping_add(self.registers.f.c as u8)'
carry_rhs(m, x) == (x + carry_in(m)) % U8

\* ADC A,x taking H and C from the second addition only
adc_a_second_add_only(m, x, cycle) ==
    Done([m EXCEPT !.registers.f =
                      [z |-> (m.registers.a + carry_rhs(m, x)) % U8 = 0,
                       n |-> FALSE,
                       h |-> calc_half_carry(m.registers.a, carry_rhs(m, x)),
                       c |-> calc_carry(m.registers.a, carry_rhs(m, x))],
                   !.registers.a = (@ + carry_rhs(m, x)) % U8], cycle)

\* ADC A,x: the body shared by adc_a_b_0x88 .. adc_a_a_0x8f and adc_a_d8_0xce
adc_a(m, x, cycle) ==
    Done([m EXCEPT !.registers.f =
                      [z |-> (m.registers.a + carry_rhs(m, x)) % U8 = 0,
                       n |-> FALSE,
                       h |-> IF calc_half_carry(x, carry_in(m))
                             THEN TRUE
                             ELSE calc_half_carry(m.registers.a, carry_rhs(m, x)),
                       c |-> IF calc_carry(x, carry_in(m))
                             THEN TRUE
                             ELSE calc_carry(m.registers.a, carry_rhs(m, x))],
                   !.registers.a = (@ + carry_rhs(m, x)) % U8], cycle)

\* SBC A,x: the body shared by sbc_a_b_0x98 .. sbc_a_a_0x9f
sbc_a(m, x, cycle) ==
    Done([m EXCEPT !.registers.f =
                      [z |-> (m.registers.a + U8 - carry_rhs(m, x)) % U8 = 0,
                       n |-> TRUE,
                       h |-> IF calc_half_carry(x, carry_in(m))
                             THEN TRUE
                             ELSE IF calc_half_carry(x, carry_in(m))
                             THEN TRUE
                             ELSE And8(m.registers.a, \h0F) < And8(carry_rhs(m, x), \h0F),
                       c |-> IF calc_carry(x, carry_in(m))
                             THEN TRUE
                             ELSE m.registers.a < carry_rhs(m, x)],
                   !.registers.a = (@ + U8 - carry_rhs(m, x)) % U8], cycle)

\* ADD SP,r8 with the flags of the 16-bit sum SP + r8
add_sp_r8_wide_flags(r8, sp) ==
    Done([r8.m EXCEPT !.registers.f =
                         [z |-> FALSE, n |-> FALSE,
                          h |-> calc_half_carry(sp % U8, r8.byte),
                          c |-> sp + r8.byte >= U16],
                      !.registers.sp = add_signed_u8(sp, r8.byte)], 16)

\* add_sp_r8_0xe8, r8 being the result of its fetch and sp the SP before
add_sp_r8_0xe8(r8, sp) ==
    Done([r8.m EXCEPT !.registers.f =
                         [z |-> FALSE, n |-> FALSE,
                          h |-> calc_half_carry(sp % U8, r8.byte),
                          c |-> calc_carry(sp % U8, r8.byte)],
                      !.registers.sp = add_signed_u8(sp, r8.byte)], 16)

\* daa_0x27: the correction `corr' for accumulator al and flags f
daa_corr(al, f) ==
    IF f.n
    THEN Or8(IF f.h THEN \h06 ELSE \h00, IF f.c THEN \h60 ELSE \h00)
    ELSE Or8(Or8(IF f.h THEN \h06 ELSE \h00, IF f.c THEN \h60 ELSE \h00),
             Or8(IF And8(al, \h0F) > \h09 THEN \h06 ELSE \h00,
                 IF al > \h99 THEN \h60 ELSE \h00))

\* DAA that corrects the high digit only on a carry, not when A > 0x99
daa_no_high_test(m, corr) ==
    Done([m EXCEPT !.registers.a = (@ + And8(corr, \h06)
                                      + (IF m.registers.f.c THEN \h60 ELSE 0)) % U8,
                   !.registers.f = [z |-> (m.registers.a + And8(corr, \h06)
                                            + (IF m.registers.f.c THEN \h60 ELSE 0)) % U8 = 0,
                                    n |-> @.n, h |-> FALSE, c |-> m.registers.f.c]], 4)

\* daa_0x27 from `if self.registers.f.n' on
daa_adjust(m, corr) ==
    Done([m EXCEPT !.registers.a = IF m.registers.f.n THEN (@ - corr + U8) % U8
                                   ELSE (@ + corr) % U8,
                   !.registers.f = [z |-> (IF m.registers.f.n
                                           THEN (m.registers.a - corr + U8) % U8
                                           ELSE (m.registers.a + corr) % U8) = 0,
                                    n |-> @.n, h |-> FALSE,
                                    c |-> And8(corr, \h60) # 0]], 4)

daa_0x27(m) == daa_adjust(m, daa_corr(m.registers.a, m.registers.f))

\* the condition the conditional jump, call or return `opcode' tests:
\* NZ, Z, NC or C
Condition(f, opcode) ==
    CASE opcode \in {\h20, \hC0, \hC2, \hC4} -> ~f.z
      [] opcode \in {\h28, \hC8, \hCA, \hCC} -> f.z
      [] opcode \in {\h30, \hD0, \hD2, \hD4} -> ~f.c
      [] OTHER -> f.c

\* JR cc,r8 adding the offset to the address of the opcode
jr_cc_from_opcode(r8, taken) ==
    IF taken
    THEN Done([r8.m EXCEPT !.registers.pc = add_signed_u8(wrapping_sub(@, 2), r8.byte)], 12)
    ELSE Done(r8.m, 8)

\* jr_nz_r8_0x20, jr_z_r8_0x28, jr_nc_r8_0x30, jr_c_r8_0x38, r8 being the
\* result of the fetch and `taken' the value of the condition
jr_cc_r8(r8, taken) ==
    IF taken
    THEN Done([r8.m EXCEPT !.registers.pc = add_signed_u8(@, r8.byte)], 12)
    ELSE Done(r8.m, 8)

\* the two operand fetches of JP / CALL: l is the result of the first
fetch_a16(l, h) == [m |-> h.m, a16 |-> h.byte * \h100 + l.byte]

\* jp_nz_a16_0xc2, jp_z_a16_0xca, jp_nc_a16_0xd2, jp_c_a16_0xda
jp_cc_a16(a16, taken) ==
    IF taken
    THEN Done([a16.m EXCEPT !.registers.pc = a16.a16], 16)
    ELSE Done(a16.m, 12)

\* the taken branch of CALL cc,a16, from machine m after the operand fetches
call_taken(m, a16) ==
    [CpuWrite(CpuWrite(m, wrapping_sub(m.registers.sp, 1), m.registers.pc \div \h100),
              wrapping_sub(m.registers.sp, 2), m.registers.pc % \h100)
     EXCEPT !.registers.sp = wrapping_sub(@, 2), !.registers.pc = a16]

\* call_nz_a16_0xc4, call_z_a16_0xcc, call_nc_a16_0xd4, call_c_a16_0xdc
call_cc_a16(a16, taken) ==
    IF taken
    THEN Done(call_taken(a16.m, a16.a16), 24)
    ELSE Done(a16.m, 12)

\* ret_nz_0xc0, ret_z_0xc8, ret_nc_0xd0, ret_c_0xd8
ret_cc(m, taken) ==
    IF taken
    THEN Done([AfterCpuRead(AfterCpuRead(m, m.registers.sp), wrapping_add(m.registers.sp, 1))
               EXCEPT !.registers.sp = wrapping_add(@, 2),
                      !.registers.pc = CpuRead(m, wrapping_add(m.registers.sp, 1)) * \h100
                                       + CpuRead(m, m.registers.sp)], 20)
    ELSE Done(m, 8)

\* the register ADD A,r adds for opcode 0x80 .. 0x85 and 0x87
AddOperand(opcode) ==
    CASE opcode = \h80 -> "b"
      [] opcode = \h81 -> "c"
      [] opcode = \h82 -> "d"
      [] opcode = \h83 -> "e"
      [] opcode = \h84 -> "h"
      [] opcode = \h85 -> "l"
      [] OTHER -> "a"

\* RET leaving SP where it was
ret_keeping_sp(m) ==
    Done([AfterCpuRead(AfterCpuRead(m, m.registers.sp), wrapping_add(m.registers.sp, 1))
          EXCEPT !.registers.pc = CpuRead(m, wrapping_add(m.registers.sp, 1)) * \h100
                                  + CpuRead(m, m.registers.sp)], 16)

ret_0xc9(m) ==
    Done([AfterCpuRead(AfterCpuRead(m, m.registers.sp), wrapping_add(m.registers.sp, 1))
          EXCEPT !.registers.sp = wrapping_add(@, 2),
                 !.registers.pc = CpuRead(m, wrapping_add(m.registers.sp, 1)) * \h100
                                  + CpuRead(m, m.registers.sp)], 16)

call_a16_0xcd(a16) == Done(call_taken(a16.m, a16.a16), 24)

\* rst_00h_0xc7, rst_08h_0xcf, rst_10h_0xd7, rst_18h_0xdf, rst_20h_0xe7,
\* rst_28h_0xef, rst_30h_0xf7, rst_38h_0xff
rst(m, opcode) ==
    Done(call_taken(m, CASE opcode = \hC7 -> \h0000 + \h0000
                         [] opcode = \hCF -> \h0000 + \h0008
                         [] opcode = \hD7 -> \h0000 + \h0010
                         [] opcode = \hDF -> \h0000 + \h0018
                         [] opcode = \hE7 -> \h0000 + \h0020
                         [] opcode = \hEF -> \h0000 + \h0028
                         [] opcode = \hF7 -> \h0000 + \h0030
                         [] OTHER -> \h0000 + \h0038), 16)

\* the opcodes of CPU::execute that the model executes
Opcodes ==
    {\h00, \h3E, \h76, \hC1, \hC5, \hD1, \hD5, \hD9, \hE0, \hE1, \hE5, \hF1, \hF3, \hF5, \hFB}
    \cup {\h27, \hC6, \hE8} \cup (\h80 .. \h87)
    \cup {\h20, \h28, \h30, \h38, \hC0, \hC2, \hC4, \hC8, \hCA, \hCC,
          \hD0, \hD2, \hD4, \hD8, \hDA, \hDC}
    \cup {\hC9, \hCD, \hC7, \hCF, \hD7, \hDF, \hE7, \hEF, \hF7, \hFF}
    \cup ((\h88 .. \h8F) \ {\h8E}) \cup ((\h98 .. \h9F) \ {\h9E}) \cup {\hCE}

execute(m, opcode, in) ==
    CASE opcode = \h00 -> nop_0x00(m)
      [] opcode = \h3E -> ld_a_d8_0x3e(m, in)
      [] opcode = \h76 -> halt_0x76(m)
      [] opcode = \hC1 -> pop_rr(m, "b", "c")
      [] opcode = \hC5 -> push_rr(m, "b", "c")
      [] opcode = \hD1 -> pop_rr(m, "d", "e")
      [] opcode = \hD5 -> push_rr(m, "d", "e")
      [] opcode = \hD9 -> reti_0xd9(m)
      [] opcode = \hE0 -> ldh_a8_a_0xe0(m, in)
      [] opcode = \hE1 -> pop_rr(m, "h", "l")
      [] opcode = \hE5 -> push_rr(m, "h", "l")
      [] opcode = \hF1 -> pop_af_0xf1(m)
      [] opcode = \hF3 -> di_0xf3(m)
      [] opcode = \hF5 -> push_af_0xf5(m)
      [] opcode = \hFB -> ei_0xfb(m)
      [] opcode = \h27 -> daa_0x27(m)
      [] opcode \in \h80 .. \h87 /\ opcode # \h86 ->
            add_a(m, m.registers[AddOperand(opcode)], 4)
      [] opcode = \h86 -> add_a_hl_0x86(m)
      [] opcode = \hC6 -> add_a_d8_0xc6(fetch(m, in[2]))
      [] opcode = \hE8 -> add_sp_r8_0xe8(fetch(m, in[2]), m.registers.sp)
      [] opcode \in {\h20, \h28, \h30, \h38} ->
            jr_cc_r8(fetch(m, in[2]), Condition(m.registers.f, opcode))
      [] opcode \in {\hC0, \hC8, \hD0, \hD8} ->
            ret_cc(m, Condition(m.registers.f, opcode))
      [] opcode \in {\hC2, \hCA, \hD2, \hDA} ->
            jp_cc_a16(fetch_a16(fetch(m, in[2]), fetch(fetch(m, in[2]).m, in[3])),
                      Condition(m.registers.f, opcode))
      [] opcode \in {\hC4, \hCC, \hD4, \hDC} ->
            call_cc_a16(fetch_a16(fetch(m, in[2]), fetch(fetch(m, in[2]).m, in[3])),
                        Condition(m.registers.f, opcode))
      [] opcode \in (\h88 .. \h8F) \ {\h8E} ->
            adc_a(m, m.registers[AddOperand(opcode - \h08)], 4)
      [] opcode \in (\h98 .. \h9F) \ {\h9E} ->
            sbc_a(m, m.registers[AddOperand(opcode - \h18)], 4)
      [] opcode = \hCE -> adc_a(fetch(m, in[2]).m, fetch(m, in[2]).byte, 8)
      [] opcode = \hC9 -> ret_0xc9(m)
      [] opcode = \hCD ->
            call_a16_0xcd(fetch_a16(fetch(m, in[2]), fetch(fetch(m, in[2]).m, in[3])))
      [] opcode \in {\hC7, \hCF, \hD7, \hDF, \hE7, \hEF, \hF7, \hFF} -> rst(m, opcode)
      [] OTHER -> Done(m, 0)

\* CPU::tick from the halt check on: m1 is the machine as
\* handle_interruption left it
fetch_execute(m1, in) ==
    LET opcode == fetch(m1, in[1])
    IN IF m1.is_halted
       THEN [m |-> m1, opcode |-> \h0000, cycle |-> 4]
       ELSE [opcode |-> opcode.byte] @@ execute(opcode.m, opcode.byte, in)

\* CPU::tick; `in' holds the bytes of the instruction stream at PC
tick(m, in) == fetch_execute(handle_interruption(m), in)

(* mother_board.rs: one iteration of the loop of MotherBoard::run, from    *)
(* the result r of CPU::tick on: the PPU and then the timer tick with the  *)
(* cycles it returned.  `cpu' keeps the machine as CPU::tick left it.      *)
peripherals_tick_ppu_short(r) ==
    [m |-> TimerTick(PPUTick(r.m, 4), r.cycle), opcode |-> r.opcode, cycle |-> r.cycle,
     interrupt |-> r.interrupt, cpu |-> r.m]

peripherals_tick(r) ==
    [m |-> TimerTick(PPUTick(r.m, r.cycle), r.cycle), opcode |-> r.opcode,
     cycle |-> r.cycle, interrupt |-> r.interrupt, cpu |-> r.m]

\* `interrupt' is the one CPU::handle_interruption dispatches in this tick
run_step(m, in) ==
    peripherals_tick([interrupt |-> IF m.ime THEN check_interrupt(m) ELSE "None"]
                     @@ tick(m, in))

\* the loop of MotherBoard::run over the instruction stream prog
RECURSIVE run(_, _)
run(m, prog) ==
    IF prog = <<>> \/ m.panicked THEN m ELSE run(run_step(m, Head(prog)).m, Tail(prog))

RECURSIVE WriteAll(_, _)
WriteAll(m, writes) ==
    CASE writes = <<>> \/ m.panicked -> m
      [] ~m.panicked /\ Len(writes) = 1 -> CpuWrite(m, Head(writes)[1], Head(writes)[2])
      [] OTHER -> WriteAll(WriteAll(m, SubSeq(writes, 1, Len(writes) \div 2)),
                           SubSeq(writes, Len(writes) \div 2 + 1, Len(writes)))

\* Registers::reset
RegistersReset(r) ==
    [r EXCEPT !.a = \h01, !.f = FlagsFrom(\hB0), !.b = \h00, !.c = \h13, !.d = \h00,
              !.e = \hD8, !.h = \h01, !.l = \h4D, !.pc = \h0100, !.sp = \hFFFE]

\* CPU::reset
reset(m) ==
    LET m1 == WriteAll(m, <<
            <<\hFF00, \hCF>>, <<\hFF01, \h00>>, <<\hFF02, \h7E>>, <<\hFF04, \h18>>,
            <<\hFF05, \h00>>, <<\hFF06, \h00>>, <<\hFF07, \h00>>, <<\hFF0F, \hE1>>,
            <<\hFF10, \h80>>, <<\hFF11, \hBF>>, <<\hFF12, \hF3>>, <<\hFF13, \hFF>>,
            <<\hFF14, \hBF>>, <<\hFF16, \h3F>>, <<\hFF17, \h00>>, <<\hFF18, \hFF>>,
            <<\hFF19, \hBF>>, <<\hFF1A, \h7F>>, <<\hFF1B, \hFF>>, <<\hFF1C, \h9F>>,
            <<\hFF1D, \hFF>>, <<\hFF1E, \hBF>>, <<\hFF20, \hFF>>, <<\hFF21, \h00>>,
            <<\hFF22, \h00>>, <<\hFF23, \hBF>>, <<\hFF24, \h77>>, <<\hFF25, \hF3>>,
            <<\hFF26, \hF1>>, <<\hFF40, \h91>>, <<\hFF41, \h81>>, <<\hFF42, \h00>>,
            <<\hFF43, \h00>>, <<\hFF44, \h91>>, <<\hFF45, \h00>>, <<\hFF47, \hFC>>,
            <<\hFF48, \hFF>>, <<\hFF49, \hFF>>, <<\hFF4A, \h00>>, <<\hFF4B, \h00>>,
            <<\hFFFF, \h00>> >>)
    IN [m1 EXCEPT !.registers = RegistersReset(m1.registers)]

----------------------------------------------------------------------------
(* The machine as one record, and back. *)

Machine ==
    [registers |-> registers, is_halted |-> is_halted, ime |-> ime, sb |-> sb, sc |-> sc,
     div |-> div, interruption |-> interruption, ram |-> ram, stack |-> stack, ppu |-> ppu,
     timer |-> timer, joypad |-> joypad, mbc1 |-> mbc1, panicked |-> panicked]

Commit(m) ==
    /\ registers' = m.registers
    /\ is_halted' = m.is_halted
    /\ ime' = m.ime
    /\ sb' = m.sb
    /\ sc' = m.sc
    /\ div' = m.div
    /\ interruption' = m.interruption
    /\ ram' = m.ram
    /\ stack' = m.stack
    /\ ppu' = m.ppu
    /\ timer' = m.timer
    /\ joypad' = m.joypad
    /\ mbc1' = m.mbc1
    /\ panicked' = m.panicked

Ret(op, opcode, cycle, interrupt, address, data, value) ==
    [op |-> op, opcode |-> opcode, cycle |-> cycle, interrupt |-> interrupt,
     address |-> address, data |-> data, value |-> value]

\* Registers::new
RegistersNew ==
    [a |-> \h01, f |-> FlagsFrom(\hB0), b |-> \h00, c |-> \h13, d |-> \h00, e |-> \hD8,
     h |-> \h01, l |-> \h4D, sp |-> \hFFFF, pc |-> \h0100]

(* MotherBoard::new with CPU::new, Interruption::new, PPU::new, Timer::new, *)
(* JoyPad::new and Mbc1::new for a cartridge of the given bank counts.      *)
MotherBoardNew(num_rom_banks, num_ram_banks) ==
    [registers |-> RegistersNew,
     is_halted |-> FALSE,
     ime |-> FALSE,
     sb |-> 0,
     sc |-> 0,
     div |-> 0,
     interruption |-> [interrupts |-> InterruptFlagsFrom(0),
                       enables |-> InterruptEnablesFrom(0)],
     ram |-> Zeroed,
     stack |-> Zeroed,
     ppu |-> [lcd |-> 0, oam |-> Zeroed, vram |-> Zeroed, clock |-> 0,
              clock_next_target |-> SCANLINE_CYCLE,
              lcdc |-> LcdControlFrom(0), stat |-> 0, scy |-> 0, scx |-> 0, ly |-> 0,
              lyc |-> 0, bgp |-> 0, obp0 |-> 0, obp1 |-> 0, wy |-> 0, wx |-> 0],
     timer |-> [div |-> 0, div_tmp |-> 0, tima |-> 0, tima_tmp |-> 0, tma |-> 0,
                tac |-> TACFrom(0)],
     joypad |-> [buttons |-> ButtonsFrom(\b00111111), rx |-> <<>>, cache |-> ""],
     mbc1 |-> Mbc1New(num_rom_banks, num_ram_banks),
     panicked |-> FALSE]

\* the run starts in machine m, with an empty history
Load(m) ==
    /\ registers = m.registers
    /\ is_halted = m.is_halted
    /\ ime = m.ime
    /\ sb = m.sb
    /\ sc = m.sc
    /\ div = m.div
    /\ interruption = m.interruption
    /\ ram = m.ram
    /\ stack = m.stack
    /\ ppu = m.ppu
    /\ timer = m.timer
    /\ joypad = m.joypad
    /\ mbc1 = m.mbc1
    /\ panicked = m.panicked
    /\ nops = 0
    /\ masked = FALSE
    /\ ret = Ret("new", 0, 0, "None", 0, 0, 0)
    /\ before = [ret |-> Ret("new", 0, 0, "None", 0, 0, 0), registers |-> m.registers]

----------------------------------------------------------------------------
(* Spec: MotherBoard::run resets the CPU and then ticks it.  The program   *)
(* is any sequence over the modelled opcodes with operands from D8 and A8. *)

D8 == {\h06, \h07}
A8 == {\h0F, \hFF}

Init == Load(MotherBoardNew(4, 4)) /\ started = FALSE

\* every operation leaves its trace in the history
Op(op, opcode, cycle, interrupt, address, data, value) ==
    /\ nops' = nops + 1
    /\ ret' = Ret(op, opcode, cycle, interrupt, address, data, value)
    /\ before' = [ret |-> ret, registers |-> registers]

\* the interrupt the tick from machine m services, "None" if it services none
Serviced(m) == IF m.ime THEN check_interrupt(m) ELSE "None"

Reset ==
    /\ ~panicked
    /\ nops < MaxOps
    /\ Commit(reset(Machine))
    /\ started' = TRUE
    /\ masked' = masked
    /\ Op("reset", 0, 0, "None", 0, 0, 0)

\* one CPU::tick with `in' at PC; enabled when it executes opcode `in[1]'
\* or is spent halted.  m1 is the machine as handle_interruption leaves it.
Tick(in) ==
    \E r \in {tick(Machine, in)}, m1 \in {handle_interruption(Machine)} :
       /\ started
       /\ ~panicked
       /\ ~m1.is_halted => r.opcode = in[1] /\ r.opcode \in Opcodes
       /\ Commit(r.m)
       /\ started' = started
       /\ masked' = IF ~m1.is_halted /\ r.opcode = \hF3 THEN TRUE
                    ELSE IF ~m1.is_halted /\ r.opcode \in {\hFB, \hD9} THEN FALSE
                    ELSE masked
       /\ Op("tick", r.opcode, r.cycle, Serviced(Machine), m1.registers.pc, 0, 0)

Nop == nops < MaxOps /\ Tick(<<\h00, 0, 0>>)
LdAD8 == nops < MaxOps /\ \E d8 \in D8 : Tick(<<\h3E, d8, 0>>)
Halt == nops < MaxOps /\ Tick(<<\h76, 0, 0>>)
Reti == nops < MaxOps /\ Tick(<<\hD9, 0, 0>>)
LdhA8A == nops < MaxOps /\ \E a8 \in A8 : Tick(<<\hE0, a8, 0>>)
Di == nops < MaxOps /\ Tick(<<\hF3, 0, 0>>)
Ei == nops < MaxOps /\ Tick(<<\hFB, 0, 0>>)

Next == Reset \/ Nop \/ LdAD8 \/ Halt \/ Reti \/ LdhA8A \/ Di \/ Ei

Spec == Init /\ [][Next]_vars

----------------------------------------------------------------------------
(* Spec: interrupt dispatch, HALT and reset. *)

\* bit b of IF / of the value last written to IE
Requested(b) == Bit(U8FromInterruptFlags(interruption.interrupts), b)
Enabled(b) == Bit(U8FromInterruptFlags(interruption.enables), b)

\* the bits both requested and enabled
Pending == {b \in 0 .. 4 : Requested(b) /\ Enabled(b)}

\* the IF/IE bit of a peripheral
BitOf(p) ==
    CASE p = "VBlank" -> 0
      [] p = "LcdStatus" -> 1
      [] p = "Timer" -> 2
      [] p = "Serial" -> 3
      [] OTHER -> 4

\* C1: a tick services an interrupt only if its bit is set both in IF and in
\* the value last written to IE; a requested interrupt whose IE bit is 0 is
\* never serviced, even with IME set.
C1_ServicedOnlyIfEnabled ==
    [][ret'.op = "tick" /\ ret'.interrupt # "None" => BitOf(ret'.interrupt) \in Pending]_vars

\* C2: after DI executes no tick services an interrupt until EI or RETI
\* executes; the tick that follows an executed EI, with some interrupt both
\* enabled and requested, services such an interrupt.
C2_DiMasksEiUnmasks ==
    [][ret'.op = "tick" =>
          /\ masked => ret'.interrupt = "None"
          /\ ret.op = "tick" /\ ret.opcode = \hFB /\ Pending # {} =>
                ret'.interrupt # "None" /\ BitOf(ret'.interrupt) \in Pending]_vars

\* C3: with IME set and several interrupts both enabled and requested, the
\* tick services the one with the lowest bit and jumps to 0x0040 + 8 * bit.
C3_LowestBitFirst ==
    [][ret'.op = "tick" /\ ime /\ Cardinality(Pending) >= 2 =>
          /\ ret'.interrupt # "None"
          /\ \A b \in Pending : BitOf(ret'.interrupt) <= b
          /\ ret'.address = \h0040 + 8 * BitOf(ret'.interrupt)
          /\ BitOf(ret'.interrupt) \in Pending]_vars

\* C4: a tick of the halted CPU with no interrupt both enabled and requested
\* returns 4 cycles, changes no register and no memory and leaves the CPU
\* halted; with some interrupt both enabled and requested the CPU leaves the
\* halted state, whatever IME.
C4_HaltUntilPending ==
    [][ret'.op = "tick" /\ is_halted =>
          IF Pending = {}
          THEN ret'.cycle = 4 /\ is_halted' /\ Machine' = Machine
          ELSE ~is_halted' \/ ret'.opcode # \h0000]_vars

\* C5: after reset(), whatever the state before, A=0x01 F=0xB0 BC=0x0013
\* DE=0x00D8 HL=0x014D SP=0xFFFE PC=0x0100 and IME is false.
C5_ResetState ==
    ret.op = "reset" =>
        /\ registers.a = \h01 /\ U8FromFlags(registers.f) = \hB0
        /\ registers.b = \h00 /\ registers.c = \h13
        /\ registers.d = \h00 /\ registers.e = \hD8
        /\ registers.h = \h01 /\ registers.l = \h4D
        /\ registers.sp = \hFFFE /\ registers.pc = \h0100
        /\ ~ime

----------------------------------------------------------------------------
(* SpecBus: CPU::read and CPU::write called with sampled addresses and      *)
(* data, no tick in between.                                                *)

\* CPU reads and writes in one run of SpecBus
MaxBusOps == 3

BusAddresses ==
    {\hC000, \hC001, \hDDFF, \hDE00, \hDFFF, \hE000, \hE001, \hFDFF, \hFF04, \hFF80}
BusData == {\h00, \h18, \hFF}

Write ==
    \E address \in BusAddresses, data \in BusData :
       /\ ~panicked
       /\ nops < MaxBusOps
       /\ Commit(CpuWrite(Machine, address, data))
       /\ UNCHANGED <<started, masked>>
       /\ Op("write", 0, 0, "None", address, data, 0)

Read ==
    \E address \in BusAddresses :
       /\ ~panicked
       /\ nops < MaxBusOps
       /\ Commit(AfterCpuRead(Machine, address))
       /\ UNCHANGED <<started, masked>>
       /\ Op("read", 0, 0, "None", address, 0, CpuRead(Machine, address))

NextBus == Write \/ Read

SpecBus == Init /\ [][NextBus]_vars

\* C6: a CPU read of 0xFF04 that directly follows a CPU write of any v to
\* 0xFF04 returns 0.
C6_DivWriteReadsZero ==
    /\ before.ret.op = "write" /\ before.ret.address = \hFF04
    /\ ret.op = "read" /\ ret.address = \hFF04
    => ret.value = 0

\* C7: a byte written at X in 0xE000-0xFDFF is read back at X - 0x2000, a
\* byte written at X - 0x2000 is read back at X, and the write changes no
\* other byte of work RAM (bytes outside both domains are 0 before and after).
C7_EchoMirrorsWorkRam ==
    [][/\ ret.op = "write" /\ ret'.op = "read"
          /\ \/ ret.address \in \hE000 .. \hFDFF /\ ret'.address = ret.address - \h2000
             \/ ret'.address \in \hE000 .. \hFDFF /\ ret.address = ret'.address - \h2000
          => ret'.value = ret.data
       /\ ret'.op = "write" /\ ret'.address \in \hC000 .. \hFDFF =>
             \A i \in (DOMAIN ram \cup DOMAIN ram') \ {(ret'.address - \hC000) % \h2000} :
                Get(ram', i) = Get(ram, i)]_vars

\* an echo write read back below, and a work-RAM write read back in the echo,
\* each next to another non-zero byte of work RAM
C7_Witness ==
    /\ before.ret.op = "write" /\ before.ret.data = \h18
    /\ ret.op = "read" /\ ret.value = \h18
    /\ \/ before.ret.address = \hFDFF /\ ret.address = \hDDFF
       \/ before.ret.address = \hC000 /\ ret.address = \hE000
    /\ Get(ram, \h0001) = \hFF

----------------------------------------------------------------------------
(* SpecStack: PUSH rr and POP rr ticked on the reset machine, with A, F, BC *)
(* and SP loaded with sampled values.                                       *)

\* ticks in one run of SpecStack
MaxStackOps == 3

StackPointers == {\hFF80, \hFF81, \hFF82, \hFFFE, \hFFFF}

InitStack ==
    \E a \in {\h01, \hFF}, f \in {\hB0, \h40}, bc \in {\h0013, \h12FF}, sp \in StackPointers :
       /\ Load([reset(MotherBoardNew(4, 4))
                   EXCEPT !.registers.a = a, !.registers.f = FlagsFrom(f),
                          !.registers.b = bc \div \h100, !.registers.c = bc % \h100,
                          !.registers.sp = sp])
       /\ started = TRUE

Push == nops < MaxStackOps /\ \E opcode \in {\hC5, \hD5, \hE5, \hF5} : Tick(<<opcode, 0, 0>>)
Pop == nops < MaxStackOps /\ \E opcode \in {\hC1, \hD1, \hE1, \hF1} : Tick(<<opcode, 0, 0>>)

NextStack == Push \/ Pop

SpecStack == InitStack /\ [][NextStack]_vars

\* the register pair a PUSH or POP opcode names, as registers r hold it
Pair(r, opcode) ==
    CASE opcode \in {\hC1, \hC5} -> r.b * \h100 + r.c
      [] opcode \in {\hD1, \hD5} -> r.d * \h100 + r.e
      [] opcode \in {\hE1, \hE5} -> r.h * \h100 + r.l
      [] OTHER -> r.a * \h100 + U8FromFlags(r.f)

\* PUSH found SP in sps: a POP that directly follows it loads the pair PUSH
\* stored (POP AF: less the low nibble, which F does not have) and puts SP
\* back, and PUSH has left the pair's high byte at SP-1 and its low byte at
\* SP-2.
PushPop(sps) ==
    /\ /\ ret.op = "tick" /\ ret.opcode \in {\hC1, \hD1, \hE1, \hF1}
       /\ before.ret.op = "tick" /\ before.ret.opcode \in {\hC5, \hD5, \hE5, \hF5}
       /\ wrapping_add(before.registers.sp, 2) \in sps
       => /\ LET rr == Pair(before.registers, before.ret.opcode)
             IN Pair(registers, ret.opcode) = IF ret.opcode = \hF1 THEN rr - (rr % \h10) ELSE rr
          /\ registers.sp = wrapping_add(before.registers.sp, 2)
    /\ /\ ret.op = "tick" /\ ret.opcode \in {\hC5, \hD5, \hE5, \hF5}
       /\ before.registers.sp \in sps
       => /\ registers.sp = wrapping_sub(before.registers.sp, 2)
          /\ CpuRead(Machine, wrapping_sub(before.registers.sp, 1))
                = Pair(registers, ret.opcode) \div \h100
          /\ CpuRead(Machine, wrapping_sub(before.registers.sp, 2))
                = Pair(registers, ret.opcode) % \h100

\* C8: PUSH rr then POP rr' with SP-1 and SP-2 in high RAM (SP in
\* 0xFF82-0xFFFF) leaves rr' = rr and SP restored; PUSH stores the high byte
\* at SP-1 and the low byte at SP-2 (BC, DE, HL and AF, F's low nibble zero).
C8_PushPop == PushPop(\hFF82 .. \hFFFF)

\* C8 as stated: the same for every SP pointing into high RAM (0xFF80-0xFFFE)
C8_PushPopAnySpInHram == PushPop(\hFF80 .. \hFFFE)

\* PUSH BC at SP = 0xFFFE, then POP DE
C8_Witness ==
    /\ before.ret.opcode = \hC5 /\ ret.opcode = \hD1
    /\ registers.sp = \hFFFE
    /\ registers.d = \h12 /\ registers.e = \hFF

----------------------------------------------------------------------------
(* SpecMbc1: Mbc1::read and Mbc1::write on a cartridge with no RAM, with    *)
(* one RAM bank (8 KiB) or with four (32 KiB).                              *)

\* cartridge reads and writes in one run of SpecMbc1
MaxMbc1Ops == 5

Mbc1Data == {\h00, \h01, \h0A, \h55}

InitMbc1 ==
    \E num_ram_banks \in {0, 1, 4} :
       Load(MotherBoardNew(4, num_ram_banks)) /\ started = FALSE

Mbc1WriteOp ==
    \E address \in {\h0000, \h1FFF, \h2000, \h4000, \h6000, \hA000, \hBFFF}, data \in Mbc1Data :
       /\ ~panicked
       /\ nops < MaxMbc1Ops
       /\ Commit([Machine EXCEPT !.mbc1 = Mbc1Write(mbc1, address, data),
                                 !.panicked = Mbc1WritePanics(mbc1, address, data)])
       /\ UNCHANGED <<started, masked>>
       /\ Op("write", 0, 0, "None", address, data, 0)

Mbc1ReadOp ==
    \E address \in {\h4000, \hA000, \hBFFF} :
       /\ ~panicked
       /\ nops < MaxMbc1Ops
       /\ Commit([Machine EXCEPT !.panicked = Mbc1ReadPanics(mbc1, address)])
       /\ UNCHANGED <<started, masked>>
       /\ Op("read", 0, 0, "None", address, 0,
             IF Mbc1ReadPanics(mbc1, address) THEN 0 ELSE Mbc1Read(mbc1, address))

NextMbc1 == Mbc1WriteOp \/ Mbc1ReadOp

SpecMbc1 == InitMbc1 /\ [][NextMbc1]_vars

\* C9: with cartridge RAM enabled (0x0A written to 0x0000-0x1FFF), a read
\* of a in 0xA000-0xBFFF that directly follows a write of v to a returns v,
\* whichever RAM bank is selected, bank 0 included.
C9_RamReadsBackWrite ==
    /\ mbc1.ram_mode = "Enable"
    /\ before.ret.op = "write" /\ before.ret.address \in \hA000 .. \hBFFF
    /\ ret.op = "read" /\ ret.address = before.ret.address
    /\ ~panicked
    => ret.value = before.ret.data

\* C10: while cartridge RAM is disabled a write to 0xA000-0xBFFF changes no
\* RAM byte and a read of 0xA000-0xBFFF returns 0xFF, whatever RAM holds.
C10_DisabledRamIsInert ==
    [][/\ mbc1.ram_mode = "Disable" /\ ret'.address \in \hA000 .. \hBFFF /\ ~panicked'
       /\ ret'.op \in {"read", "write"}
       => /\ mbc1'.ram_banks = mbc1.ram_banks
          /\ ret'.op = "read" => ret'.value = \hFF]_vars

\* C11: a freshly built MBC1 controller, whatever RAM size the header
\* declares, has ROM bank 1 and RAM bank 0 selected, is in ROM-banking mode
\* and has its external RAM disabled.
C11_Mbc1InitialState ==
    nops = 0 /\ ~started
    => /\ mbc1.current_rom_bank = 1
       /\ mbc1.current_ram_bank = 0
       /\ mbc1.bank_mode = "Rom"
       /\ mbc1.ram_mode = "Disable"

----------------------------------------------------------------------------
(* SpecPpu: after CPU::reset, PPU::tick with the cycle counts CPU::tick     *)
(* returns, between guest writes to LY, SCX and IF.                         *)

\* T-cycles the PPU accumulates in one run of SpecPpu
MaxClock == 960

\* guest writes in one run of SpecPpu
MaxPpuWrites == 2

Cycles == {4, 24}

PpuWrites ==
    {<<\hFF44, \h8F>>, <<\hFF44, \h99>>, <<\hFF44, \hFF>>, <<\hFF43, \h01>>, <<\hFF0F, \h00>>}

InitPpu == Load(reset(MotherBoardNew(4, 4))) /\ started = TRUE

PpuTick ==
    \E cycle \in Cycles :
       /\ ~panicked
       /\ ppu.clock < MaxClock
       /\ Commit(PPUTick(Machine, cycle))
       /\ ret' = Ret("ppu_tick", 0, cycle, "None", 0, 0, 0)
       /\ before' = [ret |-> ret, registers |-> registers]
       /\ UNCHANGED <<nops, started, masked>>

PpuWrite ==
    \E w \in PpuWrites :
       /\ ~panicked
       /\ nops < MaxPpuWrites
       /\ Commit(CpuWrite(Machine, w[1], w[2]))
       /\ UNCHANGED <<started, masked>>
       /\ Op("write", 0, 0, "None", w[1], w[2], 0)

NextPpu == PpuTick \/ PpuWrite

SpecPpu == InitPpu /\ [][NextPpu]_vars

\* C12: in every reachable state, whatever the guest wrote to 0xFF44 and
\* however often the PPU ticked after reset(), LY is in 0..153.
C12_LyInRange == ppu.ly \in 0 .. 153

\* bit 0 of IF (V-Blank) in interruption record i
VBlankRequested(i) == And8(U8FromInterruptFlags(i.interrupts), \b00000001) = 1

----------------------------------------------------------------------------
(* SpecFrame: after CPU::reset (LY = 0x91) the PPU ticks, undisturbed by    *)
(* guest writes, for more than one frame after LY first returns to 0.       *)

\* T-cycles the PPU accumulates in one run of SpecFrame
MaxFrameClock == 74400

FrameTick ==
    \E cycle \in Cycles :
       /\ ~panicked
       /\ ppu.clock < MaxFrameClock
       /\ Commit(PPUTick(Machine, cycle))
       /\ ret' = Ret("ppu_tick", 0, cycle, "None", 0, 0, 0)
       /\ before' = [ret |-> ret, registers |-> registers]
       /\ UNCHANGED <<nops, started, masked>>

NextFrame == FrameTick

SpecFrame == InitPpu /\ [][NextFrame]_vars

\* scanlines completed after `clock' accumulated T-cycles
LinesAfter(clock) == clock \div SCANLINE_CYCLE

\* C14: LY advances by one for every 456 T-cycles accumulated, whatever the
\* ticks that add them up; each time it reaches 154 the frame is drawn once
\* and LY restarts at 0, so that from LY = 0 on the sink is called once per
\* 154 * 456 = 70224 T-cycles.  (reset() leaves LY = 0x91 = 145.)
C14_LinePer456Cycles ==
    /\ ppu.clock_next_target = SCANLINE_CYCLE * (LinesAfter(ppu.clock) + 1)
    /\ ppu.ly = (\h91 + LinesAfter(ppu.clock)) % 154
    /\ ppu.lcd = (\h91 + LinesAfter(ppu.clock)) \div 154
    /\ ~panicked

\* the second frame is drawn 70224 T-cycles after the first
C14_Witness ==
    /\ ret.op = "ppu_tick" /\ ppu.lcd = 2 /\ ppu.ly = 0
    /\ ppu.clock = 9 * 456 + 70224

----------------------------------------------------------------------------
(* SpecDma: CPU::write of a source page to 0xFF46 (OAM DMA), after reset    *)
(* and between CPU writes that fill the source pages.                       *)

\* CPU writes in one run of SpecDma
MaxDmaOps == 3

\* first and last byte of the source range in work RAM, and one byte each
\* of echo RAM, VRAM and cartridge RAM; 0x0000 enables the cartridge RAM
DmaFillAddresses == {\h0000, \h8000, \hA000, \hC000, \hC09F, \hE001}

DmaData == {\h0A, \h9F}

\* ROM bank 0, ROM bank N, VRAM, cartridge RAM, work RAM, echo RAM
DmaPages == {\h00, \h40, \h80, \hA0, \hC0, \hE0}

DmaFill ==
    \E address \in DmaFillAddresses, data \in DmaData :
       /\ ~panicked
       /\ nops < MaxDmaOps
       /\ Commit(CpuWrite(Machine, address, data))
       /\ UNCHANGED <<started, masked>>
       /\ Op("write", 0, 0, "None", address, data, 0)

DmaStart ==
    \E xx \in DmaPages :
       /\ ~panicked
       /\ nops < MaxDmaOps
       /\ Commit(CpuWrite(Machine, \hFF46, xx))
       /\ UNCHANGED <<started, masked>>
       /\ Op("write", 0, 0, "None", \hFF46, xx, 0)

NextDma == DmaFill \/ DmaStart

SpecDma == InitPpu /\ [][NextDma]_vars

\* C15: a write of xx to 0xFF46, for a page xx of ROM, VRAM, cartridge RAM,
\* work RAM or echo RAM, ends without a panic, leaves in OAM byte i the
\* byte the bus returned for xx00 + i (i in 0..159) and changes nothing
\* outside OAM.
C15_DmaCopiesPage ==
    [][ret'.op = "write" /\ ret'.address = \hFF46
       => /\ ~panicked'
          /\ \A i \in 0 .. \h9F :
                Get(ppu'.oam, i) = BusRead(Machine, ret'.data * \h100 + i)
          /\ [Machine' EXCEPT !.ppu.oam = ppu.oam] = Machine]_vars

----------------------------------------------------------------------------
(* SpecRun: the loop of MotherBoard::run, one iteration per step.  A run    *)
(* starts after reset, or further on in a program that has cleared IF,     *)
(* set IE and brought the timer or the PPU close to raising its interrupt. *)

\* loop iterations in one run of SpecRun
MaxRunOps == 4

\* LD A,0; LDH (0F),A; LD A,5; LDH (FF),A; LDH (07),A; LD A,FF:
\* IF = 0, IE = Timer | V-Blank, timer running at 262144 Hz, A = 0xFF
TimerProgram ==
    << <<\h3E, \h00, 0>>, <<\hE0, \h0F, 0>>, <<\h3E, \h05, 0>>, <<\hE0, \hFF, 0>>,
       <<\hE0, \h07, 0>>, <<\h3E, \hFF, 0>> >>

\* LD A,8F; LDH (FF),A; LDH (44),A; LD A,0; NOP and 34 times LDH (0F),A:
\* IF = 0, IE bit 0 set, LY = 143 and four cycles left on the scanline
VBlankProgram ==
    << <<\h3E, \h8F, 0>>, <<\hE0, \hFF, 0>>, <<\hE0, \h44, 0>>, <<\h3E, \h00, 0>>,
       <<\h00, 0, 0>> >> \o [k \in 1 .. 34 |-> <<\hE0, \h0F, 0>>]

InitRun ==
    \E prog \in {<<>>, TimerProgram, VBlankProgram} :
       Load(run(reset(MotherBoardNew(4, 4)), prog)) /\ started = TRUE

\* one iteration with `in' at PC; data is the IF byte as CPU::tick left it
RunStep(in) ==
    \E r \in {run_step(Machine, in)}, m1 \in {handle_interruption(Machine)} :
       /\ ~panicked
       /\ ~m1.is_halted => r.opcode = in[1] /\ r.opcode \in Opcodes
       /\ Commit(r.m)
       /\ UNCHANGED <<started, masked>>
       /\ Op("step", r.opcode, r.cycle, r.interrupt, m1.registers.pc,
             U8FromInterruptFlags(r.cpu.interruption.interrupts), 0)

RunNop == nops < MaxRunOps /\ RunStep(<<\h00, 0, 0>>)
RunLdAD8 == nops < MaxRunOps /\ \E d8 \in {\h05, \hFF} : RunStep(<<\h3E, d8, 0>>)
RunLdhA8A == nops < MaxRunOps /\ \E a8 \in {\h05, \h07} : RunStep(<<\hE0, a8, 0>>)
RunHalt == nops < MaxRunOps /\ RunStep(<<\h76, 0, 0>>)
RunEi == nops < MaxRunOps /\ RunStep(<<\hFB, 0, 0>>)

NextRun == RunNop \/ RunLdAD8 \/ RunLdhA8A \/ RunHalt \/ RunEi

SpecRun == InitRun /\ [][NextRun]_vars

\* the IF bits the PPU and the timer set in the last iteration
Raised == {b \in 0 .. 4 : ret.op = "step" /\ Requested(b) /\ ~Bit(ret.data, b)}

\* C16: in each iteration of the main loop the PPU and the timer advance
\* by exactly the cycles CPU::tick returned; the interrupt that tick
\* dispatches was requested before the iteration (not raised in its own
\* advance), and an enabled bit raised in the advance is dispatched, or a
\* higher-priority one is, by the very next tick when IME is set, and that
\* tick ends HALT.
C16_AdvanceThenSee ==
    [][ret'.op = "step" /\ ~panicked'
       => /\ ppu'.clock = ppu.clock + ret'.cycle
          /\ timer'.div_tmp = (timer.div_tmp + ret'.cycle) % (CPU_CLOCK \div CLOCK_DIV)
          /\ ret'.interrupt # "None" => Requested(BitOf(ret'.interrupt))
          /\ \A b \in Raised :
                Enabled(b) =>
                   /\ ime => ret'.interrupt # "None" /\ BitOf(ret'.interrupt) <= b
                   /\ is_halted => registers'.pc # registers.pc]_vars

\* the timer raised its bit in one iteration and the next tick dispatched it
C16_Witness ==
    /\ ret.op = "step" /\ ret.interrupt = "Timer" /\ ~panicked
    /\ before.ret.op = "step" /\ ~Bit(before.ret.data, 2)

----------------------------------------------------------------------------
(* Instruction-level specifications: CPU::tick executing one instruction   *)
(* `in' from a register file the program has set up; ret keeps the operand *)
(* bytes in[2] and in[3].                                                  *)

Exec(in) ==
    \E r \in {tick(Machine, in)}, m1 \in {handle_interruption(Machine)} :
       /\ started
       /\ ~panicked
       /\ ~m1.is_halted => r.opcode = in[1] /\ r.opcode \in Opcodes
       /\ Commit(r.m)
       /\ UNCHANGED <<started, masked>>
       /\ Op("tick", r.opcode, r.cycle, Serviced(Machine), m1.registers.pc, in[2], in[3])

(* SpecAdd: ADD A,r / ADD A,(HL) / ADD A,d8 for every accumulator value.   *)
(* With v drawn from AddOperands the registers B, C, D, E hold v, v + 1,   *)
(* v + 2, v + 3, the byte at (HL) is v + 4 and L is v + 5 (mod 256).       *)

\* instructions in one run of SpecAdd
MaxAddOps == 1

AddOperands == {\h00, \h0B, \h7C, \hFA}

AddImmediates == {\h01, \h0F, \hFF}

InitAdd ==
    \E a \in 0 .. U8 - 1, v \in AddOperands :
       /\ Load([reset(MotherBoardNew(4, 4))
                EXCEPT !.registers.a = a, !.registers.b = v,
                       !.registers.c = (v + 1) % U8, !.registers.d = (v + 2) % U8,
                       !.registers.e = (v + 3) % U8, !.registers.h = \hC0,
                       !.registers.l = (v + 5) % U8,
                       !.ram = Put(Zeroed, (v + 5) % U8, (v + 4) % U8)])
       /\ started = TRUE

AddAR == nops < MaxAddOps /\ \E opcode \in (\h80 .. \h87) \ {\h86} : Exec(<<opcode, 0, 0>>)
AddAHl == nops < MaxAddOps /\ Exec(<<\h86, 0, 0>>)
AddAD8 == nops < MaxAddOps /\ \E d8 \in AddImmediates : Exec(<<\hC6, d8, 0>>)

NextAdd == AddAR \/ AddAHl \/ AddAD8

SpecAdd == InitAdd /\ [][NextAdd]_vars

\* the operand v of the ADD A,v just executed
AddedValue ==
    CASE ret.opcode = \h86 -> Get(ram, hl(before.registers) - \hC000)
      [] ret.opcode = \hC6 -> ret.data
      [] OTHER -> before.registers[AddOperand(ret.opcode)]

\* C17: ADD A,v (v a register, (HL) or d8) leaves A = (A + v) mod 256,
\* Z = (that sum is 0), N = 0, H = ((A & 0xF) + (v & 0xF) > 0xF) and
\* C = (A + v > 0xFF); calc_half_carry and calc_carry return these H and C
\* for all pairs of bytes.
C17_AddFlags ==
    /\ nops = 0 =>
          \A rhs \in 0 .. U8 - 1 :
             /\ calc_half_carry(registers.a, rhs) <=> (registers.a % 16) + (rhs % 16) > 15
             /\ calc_carry(registers.a, rhs) <=> registers.a + rhs > 255
    /\ ret.op = "tick" /\ ret.opcode \in (\h80 .. \h87) \cup {\hC6} =>
          /\ ~panicked
          /\ registers.a = (before.registers.a + AddedValue) % 256
          /\ registers.f =
                [z |-> (before.registers.a + AddedValue) % 256 = 0,
                 n |-> FALSE,
                 h |-> (before.registers.a % 16) + (AddedValue % 16) > 15,
                 c |-> before.registers.a + AddedValue > 255]

\* ADD A,(HL) with a half carry and a carry that leaves zero
C17_Witness ==
    /\ ret.op = "tick" /\ ret.opcode = \h86 /\ AddedValue = \hFE
    /\ before.registers.a = \h02 /\ registers.a = 0
    /\ registers.f = [z |-> TRUE, n |-> FALSE, h |-> TRUE, c |-> TRUE]

----------------------------------------------------------------------------
(* SpecAddSp: ADD SP,r8 for every offset byte. *)

\* instructions in one run of SpecAddSp
MaxAddSpOps == 1

StackPointerValues == {\h0001, \h0FFF, \hFFF0}

InitAddSp ==
    \E sp \in StackPointerValues :
       Load([reset(MotherBoardNew(4, 4)) EXCEPT !.registers.sp = sp]) /\ started = TRUE

AddSpR8 == nops < MaxAddSpOps /\ \E r8 \in 0 .. U8 - 1 : Exec(<<\hE8, r8, 0>>)

NextAddSp == AddSpR8

SpecAddSp == InitAddSp /\ [][NextAddSp]_vars

\* the offset byte r8 as the signed number it encodes
SignedOffset(r8) == IF r8 < 128 THEN r8 ELSE r8 - 256

\* C18: ADD SP,r8 sets SP to (SP + sign-extended r8) mod 2^16, the sign
\* extension of v being v below 128 and 0xFF00 | v from 128 on, and sets
\* Z = 0, N = 0 and H and C to the half-carry and carry of the low byte of
\* SP plus r8 taken unsigned.
C18_AddSpSigned ==
    /\ nops = 0 =>
          \A v \in 0 .. U8 - 1 :
             to_signed_u16(v) = IF v < 128 THEN v ELSE Or8(\hFF00, v)
    /\ ret.op = "tick" /\ ret.opcode = \hE8 =>
          /\ ~panicked
          /\ registers.sp = (before.registers.sp + SignedOffset(ret.data) + U16) % U16
          /\ registers.f =
                [z |-> FALSE, n |-> FALSE,
                 h |-> (before.registers.sp % 16) + (ret.data % 16) > 15,
                 c |-> (before.registers.sp % 256) + ret.data > 255]

\* SP = 0xFFF0 and r8 = 0xFE (-2) give SP = 0xFFEE, with a carry out of the
\* low byte and no half carry
C18_Witness ==
    /\ ret.op = "tick" /\ ret.opcode = \hE8 /\ ret.data = \hFE /\ ret.cycle = 16
    /\ before.registers.sp = \hFFF0 /\ registers.sp = \hFFEE
    /\ registers.f = [z |-> FALSE, n |-> FALSE, h |-> FALSE, c |-> TRUE]

----------------------------------------------------------------------------
(* SpecDaa: ADD A,B or ADD A,d8 of two packed-BCD bytes, then DAA. *)

\* instructions in one run of SpecDaa
MaxDaaOps == 2

\* the packed-BCD bytes 0x00 .. 0x99
Bcd == {16 * hi + lo : hi \in 0 .. 9, lo \in 0 .. 9}

InitDaa ==
    \E a \in Bcd, b \in Bcd :
       /\ Load([reset(MotherBoardNew(4, 4)) EXCEPT !.registers.a = a, !.registers.b = b])
       /\ started = TRUE

DaaAddAB == nops < MaxDaaOps /\ Exec(<<\h80, 0, 0>>)
DaaAddAD8 == nops < MaxDaaOps /\ Exec(<<\hC6, \h38, 0>>)
Daa == nops < MaxDaaOps /\ Exec(<<\h27, 0, 0>>)

NextDaa == DaaAddAB \/ DaaAddAD8 \/ Daa

SpecDaa == InitDaa /\ [][NextDaa]_vars

\* the number a packed-BCD byte stands for, and the byte for a number
FromBcd(v) == 10 * (v \div 16) + (v % 16)
ToBcd(n) == 16 * ((n \div 10) % 10) + (n % 10)

\* the operand y of the ADD that preceded the last instruction, and the
\* value x that A held before that ADD
DaaY == IF before.ret.opcode = \hC6 THEN before.ret.data ELSE before.registers.b
DaaX == (before.registers.a - DaaY + U8) % U8

\* C19: DAA after ADD A,y of two packed-BCD bytes leaves in A the packed
\* BCD of their decimal sum modulo 100, C set iff that sum is 100 or more,
\* H = 0 and Z set iff the new A is 0; 0x45 + 0x38 gives 0x7D and DAA
\* turns it into 0x83 with C = 0 and H = 0.
C19_DaaAfterAdd ==
    /\ ret.op = "tick" /\ ret.opcode = \h27
       /\ before.ret.opcode \in {\h80, \hC6} /\ DaaX \in Bcd /\ DaaY \in Bcd =>
          /\ ~panicked
          /\ ret.cycle = 4
          /\ registers.a = ToBcd((FromBcd(DaaX) + FromBcd(DaaY)) % 100)
          /\ registers.f.c <=> FromBcd(DaaX) + FromBcd(DaaY) >= 100
          /\ ~registers.f.h
          /\ registers.f.z <=> registers.a = 0
          /\ registers.pc = (before.registers.pc + 1) % U16
    /\ ret.op = "tick" /\ ret.opcode = \h27
       /\ before.ret.opcode = \hC6 /\ DaaX = \h45 =>
          /\ before.registers.a = \h7D
          /\ registers.a = \h83 /\ ~registers.f.c /\ ~registers.f.h

C19_Witness ==
    /\ ret.op = "tick" /\ ret.opcode = \h27
    /\ before.ret.opcode = \hC6 /\ before.ret.data = \h38
    /\ before.registers.a = \h7D
    /\ registers.a = \h83 /\ ~registers.f.c /\ ~registers.f.h /\ ~panicked

----------------------------------------------------------------------------
(* SpecBranch: the conditional JR, JP, CALL and RET, from a CPU whose stack
   holds a return address. *)

\* instructions in one run of SpecBranch
MaxBranchOps == 2

BranchStarts == {\h0000, \h0300}
BranchFlags == {\h00, \h10, \h80, \h90}
BranchStacks == {\hFF90, \hFFF0}
BranchOffsets == {\h00, \h7F, \h80, \hFE}
BranchTargets == {\h0300, \h7FF0}

InitBranch ==
    \E pc \in BranchStarts, f \in BranchFlags, sp \in BranchStacks :
       /\ Load(CpuWrite(CpuWrite([reset(MotherBoardNew(4, 4))
                                     EXCEPT !.registers.pc = pc,
                                            !.registers.f = FlagsFrom(f),
                                            !.registers.sp = sp],
                                 sp + 1, \h12), sp, \h34))
       /\ started = TRUE

JrCc ==
    /\ nops < MaxBranchOps
    /\ \E opcode \in {\h20, \h28, \h30, \h38}, r8 \in BranchOffsets : Exec(<<opcode, r8, 0>>)

JpCc ==
    /\ nops < MaxBranchOps
    /\ \E opcode \in {\hC2, \hCA, \hD2, \hDA}, a16 \in BranchTargets :
          Exec(<<opcode, a16 % \h100, a16 \div \h100>>)

CallCc ==
    /\ nops < MaxBranchOps
    /\ \E opcode \in {\hC4, \hCC, \hD4, \hDC}, a16 \in BranchTargets :
          Exec(<<opcode, a16 % \h100, a16 \div \h100>>)

RetCc ==
    /\ nops < MaxBranchOps
    /\ \E opcode \in {\hC0, \hC8, \hD0, \hD8} : Exec(<<opcode, 0, 0>>)

NextBranch == JrCc \/ JpCc \/ CallCc \/ RetCc

SpecBranch == InitBranch /\ [][NextBranch]_vars

\* the instruction an opcode of SpecBranch encodes, the number of its
\* operand bytes and the condition it tests (bits 3 and 4: NZ, Z, NC, C)
BranchKind(opcode) ==
    CASE opcode < \h40 -> "JR"
      [] opcode >= \h40 /\ opcode % 8 = 0 -> "RET"
      [] opcode >= \h40 /\ opcode % 8 = 2 -> "JP"
      [] OTHER -> "CALL"

OperandBytes(opcode) ==
    CASE BranchKind(opcode) = "JR" -> 1
      [] BranchKind(opcode) = "RET" -> 0
      [] OTHER -> 2

ConditionHolds(opcode, f) ==
    CASE (opcode \div 8) % 4 = 0 -> ~f.z
      [] (opcode \div 8) % 4 = 1 -> f.z
      [] (opcode \div 8) % 4 = 2 -> ~f.c
      [] OTHER -> f.c

TakenCycles(opcode) ==
    CASE BranchKind(opcode) = "JR" -> 12
      [] BranchKind(opcode) = "JP" -> 16
      [] BranchKind(opcode) = "CALL" -> 24
      [] OTHER -> 20

NotTakenCycles(opcode) ==
    CASE BranchKind(opcode) = "JR" -> 8
      [] BranchKind(opcode) = "JP" -> 12
      [] BranchKind(opcode) = "CALL" -> 12
      [] OTHER -> 8

\* the address just past the operand bytes of the instruction that ran
PastOperands == (ret.address + 1 + OperandBytes(ret.opcode)) % U16

\* C20: a conditional JR / JP / CALL / RET whose condition holds is taken
\* and costs 12 / 16 / 24 / 20 cycles; one whose condition does not hold
\* leaves PC just past its operand bytes, SP and the stack unchanged and
\* costs 8 / 12 / 12 / 8.  A taken JR leaves PC = (address after the operand
\* + sign-extended r8) mod 2^16.
C20_ConditionalBranches ==
    [][nops' = nops + 1 =>
          /\ ~panicked'
          /\ ret'.address = registers.pc
          /\ ~ConditionHolds(ret'.opcode, registers.f) =>
                /\ ret'.cycle = NotTakenCycles(ret'.opcode)
                /\ registers' = [registers EXCEPT !.pc = PastOperands']
                /\ UNCHANGED <<ram, stack, ppu, mbc1, interruption>>
          /\ ConditionHolds(ret'.opcode, registers.f) =>
                /\ ret'.cycle = TakenCycles(ret'.opcode)
                /\ BranchKind(ret'.opcode) = "JR" =>
                      /\ registers'.pc = (PastOperands' + SignedOffset(ret'.data) + U16) % U16
                      /\ registers'.sp = registers.sp
                /\ BranchKind(ret'.opcode) = "JP" =>
                      /\ registers'.pc = ret'.value * \h100 + ret'.data
                      /\ registers'.sp = registers.sp
                /\ BranchKind(ret'.opcode) = "CALL" =>
                      /\ registers'.pc = ret'.value * \h100 + ret'.data
                      /\ registers'.sp = (registers.sp - 2 + U16) % U16
                      /\ CpuRead(Machine, registers.sp)' = PastOperands' % \h100
                      /\ CpuRead(Machine, registers.sp + 1)' = PastOperands' \div \h100
                /\ BranchKind(ret'.opcode) = "RET" =>
                      /\ registers'.pc = CpuRead(Machine, registers.sp + 1) * \h100
                                         + CpuRead(Machine, registers.sp)
                      /\ registers'.sp = (registers.sp + 2) % U16
    ]_vars

\* JR Z,-2 at 0x0300 with Z = 1 took the branch back to 0x0300 for 12 cycles
C20_Witness ==
    /\ ret.op = "tick" /\ ret.opcode = \h28 /\ ret.data = \hFE
    /\ ret.address = \h0300 /\ before.registers.f.z
    /\ registers.pc = \h0300 /\ ret.cycle = 12 /\ ~panicked

----------------------------------------------------------------------------
(* SpecJoypad: CPU writes and reads of 0xFF00 on the reset machine, while   *)
(* the input thread sends the lines it read from stdin.                     *)

\* CPU accesses of 0xFF00 and lines sent in one run of SpecJoypad
MaxJoypadOps == 3

\* the values the program selects columns with
JoypadData == {\h00, \h10, \h20, \h30}

\* the lines read_line yields: a key and its newline, a bare newline, and
\* the empty string of a closed stdin
KeyLines == {<<"a", "\n">>, <<"b", "\n">>, <<"j", "\n">>, <<"l", "\n">>, <<"\n">>, <<>>}

JoypadWrite ==
    \E data \in JoypadData :
       /\ ~panicked
       /\ nops < MaxJoypadOps
       /\ Commit(CpuWrite(Machine, \hFF00, data))
       /\ UNCHANGED <<started, masked>>
       /\ Op("write", 0, 0, "None", \hFF00, data, 0)

JoypadRead ==
    /\ ~panicked
    /\ nops < MaxJoypadOps
    /\ Commit(AfterCpuRead(Machine, \hFF00))
    /\ UNCHANGED <<started, masked>>
    /\ Op("read", 0, 0, "None", \hFF00, 0, CpuRead(Machine, \hFF00))

\* tx.send(buffer) in the thread JoyPad::new spawned
KeyLine ==
    \E line \in KeyLines :
       /\ ~panicked
       /\ nops < MaxJoypadOps
       /\ Commit([Machine EXCEPT !.joypad.rx = Append(@, line)])
       /\ UNCHANGED <<started, masked>>
       /\ Op("key", 0, 0, "None", 0, 0, 0)

NextJoypad == JoypadWrite \/ JoypadRead \/ KeyLine

SpecJoypad == InitPpu /\ [][NextJoypad]_vars

\* the key that stands for bit b of the button column / the direction column
ButtonKey(b) == CASE b = 3 -> "\n" [] b = 2 -> " " [] b = 1 -> "b" [] OTHER -> "a"
DirectionKey(b) == CASE b = 3 -> "j" [] b = 2 -> "k" [] b = 1 -> "h" [] OTHER -> "l"

\* C21: every read of 0xFF00 returns bits 7 and 6 set, and each of the four
\* low bits reads as 1 unless the button it stands for in the column selected
\* by the last write (bit 5 low: buttons, bit 4 low: directions) is pressed.
C21_JoypadRead ==
    ret.op = "read" /\ ret.address = \hFF00 =>
       /\ ~panicked
       /\ Bit(ret.value, 7) /\ Bit(ret.value, 6)
       /\ \A b \in 0 .. 3 :
             ~Bit(ret.value, b) =>
                \/ ~joypad.buttons.button /\ joypad.cache = ButtonKey(b)
                \/ ~joypad.buttons.direction /\ joypad.cache = DirectionKey(b)

----------------------------------------------------------------------------
(* SpecIo: a CPU read or write of each I/O port 0xFF00-0xFF7F on the reset  *)
(* machine.                                                                 *)

\* CPU accesses in one run of SpecIo
MaxIoOps == 1

IoPorts == \hFF00 .. \hFF7F
IoData == {\h00, \h5A, \hFF}

IoWrite ==
    \E address \in IoPorts, data \in IoData :
       /\ ~panicked
       /\ nops < MaxIoOps
       /\ Commit(CpuWrite(Machine, address, data))
       /\ UNCHANGED <<started, masked>>
       /\ Op("write", 0, 0, "None", address, data, 0)

IoRead ==
    \E address \in IoPorts :
       /\ ~panicked
       /\ nops < MaxIoOps
       /\ Commit(AfterCpuRead(Machine, address))
       /\ UNCHANGED <<started, masked>>
       /\ Op("read", 0, 0, "None", address, 0, CpuRead(Machine, address))

NextIo == IoWrite \/ IoRead

SpecIo == InitPpu /\ [][NextIo]_vars

\* the ports some component implements: joypad, serial, DIV, timer, IF,
\* sound and the LCD registers
ImplementedPorts ==
    {\hFF00, \hFF01, \hFF02, \hFF04, \hFF0F}
    \cup (\hFF05 .. \hFF07) \cup (\hFF10 .. \hFF3F) \cup (\hFF40 .. \hFF4B)

\* C22: a CPU read of any address in 0xFF00-0xFF7F completes without a
\* fatal error and returns 0 for a port no component implements; a CPU
\* write to such a port changes no state.
C22_UnknownPortsIgnored ==
    [][/\ ret'.op = "read" /\ ret'.address \in IoPorts =>
             /\ ~panicked'
             /\ ret'.address \notin ImplementedPorts => ret'.value = 0
       /\ ret'.op = "write" /\ ret'.address \in IoPorts \ ImplementedPorts =>
             Machine' = Machine]_vars

----------------------------------------------------------------------------
(* SpecService: ticks of a CPU with IME set, whose program has loaded SP    *)
(* and written IF and IE.                                                   *)

\* ticks in one run of SpecService
MaxServiceOps == 2

ServiceStacks ==
    {\h0000, \h0001, \h8002, \hC001, \hC002, \hD000, \hE002, \hFE02, \hFF11,
     \hFF80, \hFF81, \hFF82, \hFFFE, \hFFFF}
ServiceStarts == {\h0150, \h12FF}
ServiceFlags == {\h00, \h01, \h04, \h12, \h1F}
ServiceEnables == {\h00, \h04, \h1F}

InitService ==
    \E sp \in ServiceStacks, pc \in ServiceStarts, flags \in ServiceFlags, ie \in ServiceEnables :
       /\ Load(CpuWrite(CpuWrite([reset(MotherBoardNew(4, 4))
                                     EXCEPT !.registers.sp = sp, !.registers.pc = pc,
                                            !.ime = TRUE],
                                 \hFF0F, flags), \hFFFF, ie))
       /\ started = TRUE

ServiceNop == nops < MaxServiceOps /\ Exec(<<\h00, 0, 0>>)
ServiceLdAD8 == nops < MaxServiceOps /\ Exec(<<\h3E, \h07, 0>>)
ServiceEi == nops < MaxServiceOps /\ Exec(<<\hFB, 0, 0>>)
ServiceHalt == nops < MaxServiceOps /\ Exec(<<\h76, 0, 0>>)

NextService == ServiceNop \/ ServiceLdAD8 \/ ServiceEi \/ ServiceHalt

SpecService == InitService /\ [][NextService]_vars

\* the addresses that store what the CPU writes: VRAM, work RAM and its
\* echo, OAM, HRAM
StoringRam ==
    (\h8000 .. \h9FFF) \cup (\hC000 .. \hFDFF) \cup (\hFE00 .. \hFE9F) \cup (\hFF80 .. \hFFFE)

\* the stack pointers whose two pushed bytes land in StoringRam
StoringStacks ==
    {s \in 0 .. U16 - 1 : {wrapping_sub(s, 1), wrapping_sub(s, 2)} \subseteq StoringRam}

\* the effect of servicing an interrupt with SP in sps, seen after a tick
\* whose instruction (NOP or LD A,d8, fetched at the vector) touches none of it
ServiceEffect(sps) ==
       /\ ret'.op = "tick" /\ ret'.interrupt # "None" /\ ret'.opcode \in {\h00, \h3E}
       /\ registers.sp \in sps
       => /\ ~panicked'
          /\ CpuRead(Machine', wrapping_sub(registers.sp, 1)) = registers.pc \div \h100
          /\ CpuRead(Machine', wrapping_sub(registers.sp, 2)) = registers.pc % \h100
          /\ registers'.sp = wrapping_sub(registers.sp, 2)
          /\ ~ime'
          /\ \A k \in 0 .. 4 :
                Bit(U8FromInterruptFlags(interruption'.interrupts), k)
                   = (k # BitOf(ret'.interrupt) /\ Requested(k))
          /\ interruption'.enables = interruption.enables
          /\ ret'.address = \h0040 + 8 * BitOf(ret'.interrupt)

\* C23 (as amended): when an interrupt is serviced with PC = p and SP = s,
\* both s-1 and s-2 being addresses of VRAM, work RAM, echo RAM, OAM or HRAM,
\* afterwards memory[s-1] holds the high byte of p, memory[s-2] the low byte,
\* SP = s-2, IME is false, exactly the serviced bit of IF is cleared, IE is
\* unchanged and PC is the vector of the serviced interrupt.
C23_ServiceEffect == [][ServiceEffect(StoringStacks)]_vars

\* C23 as stated, for every SP
C23_ServiceEffectAnySp == [][ServiceEffect(0 .. U16 - 1)]_vars

\* the LCD-STAT interrupt serviced with SP = 0xFFFE, PC = 0x12FF and IF = 0x12:
\* the joypad request stays
C23_Witness ==
    /\ ret.op = "tick" /\ ret.interrupt = "LcdStatus" /\ ret.opcode = \h00
    /\ before.registers.sp = \hFFFE /\ before.registers.pc = \h12FF
    /\ registers.sp = \hFFFC /\ ret.address = \h0048
    /\ Get(stack, \hFFFD - \hFF80) = \h12 /\ Get(stack, \hFFFC - \hFF80) = \hFF
    /\ U8FromInterruptFlags(interruption.interrupts) = \h10
    /\ ~ime /\ ~panicked


\* C24: a tick that services an interrupt executes no instruction in that
\* same tick and returns 20 cycles; the first instruction of the handler is
\* executed by the following tick.
C24_ServiceTakesTheTick ==
    [][/\ ret'.op = "tick" /\ ret'.interrupt # "None" =>
             /\ ret'.cycle = 20
             /\ registers' = [registers EXCEPT !.pc = jump_address(ret'.interrupt),
                                               !.sp = wrapping_sub(@, 2)]
       /\ ret.op = "tick" /\ ret.interrupt # "None" /\ ret'.op = "tick" =>
             ret'.address = jump_address(ret.interrupt)]_vars

----------------------------------------------------------------------------
(* SpecIntRegs: CPU writes and reads of IF (0xFF0F) and IE (0xFFFF). *)

\* CPU accesses in one run of SpecIntRegs
MaxIntRegOps == 3

\* every byte for the first access, three bytes for the later ones
IntRegData == IF nops = 0 THEN 0 .. U8 - 1 ELSE {\h00, \hE4, \hFF}

IntRegWrite ==
    \E address \in {\hFF0F, \hFFFF}, data \in IntRegData :
       /\ ~panicked
       /\ nops < MaxIntRegOps
       /\ Commit(CpuWrite(Machine, address, data))
       /\ UNCHANGED <<started, masked>>
       /\ Op("write", 0, 0, "None", address, data, 0)

IntRegRead ==
    \E address \in {\hFF0F, \hFFFF} :
       /\ ~panicked
       /\ nops < MaxIntRegOps
       /\ Commit(AfterCpuRead(Machine, address))
       /\ UNCHANGED <<started, masked>>
       /\ Op("read", 0, 0, "None", address, 0, CpuRead(Machine, address))

NextIntRegs == IntRegWrite \/ IntRegRead

SpecIntRegs == InitPpu /\ [][NextIntRegs]_vars

\* C25: IF and IE are two independent 5-bit registers: a write of v to
\* 0xFFFF followed by a read of 0xFFFF returns v & 0x1F whatever IF holds,
\* and a write of v to 0xFF0F followed by a read of 0xFF0F returns v & 0x1F
\* whatever IE holds.
C25_IfIeIndependent ==
    /\ before.ret.op = "write" /\ ret.op = "read"
    /\ before.ret.address = ret.address
    => ret.value = And8(before.ret.data, \h1F)

----------------------------------------------------------------------------
(* SpecBank: Mbc1::write to the three bank registers of a cartridge with    *)
(* 128 ROM banks and four RAM banks.                                        *)

\* register writes in one run of SpecBank
MaxBankOps == 3

BankData == {\h00, \h01, \h02, \h03, \h55, \hFE}

InitBank == Load(MotherBoardNew(128, 4)) /\ started = FALSE

BankWrite(address, data) ==
    /\ ~panicked
    /\ nops < MaxBankOps
    /\ Commit([Machine EXCEPT !.mbc1 = Mbc1Write(mbc1, address, data),
                              !.panicked = Mbc1WritePanics(mbc1, address, data)])
    /\ UNCHANGED <<started, masked>>
    /\ Op("write", 0, 0, "None", address, data, 0)

BankLowWrite == \E data \in {\h01, \h1F} : BankWrite(\h2000, data)
BankHighWrite == \E address \in {\h4000, \h5FFF}, data \in BankData : BankWrite(address, data)
BankModeWrite == \E data \in {\h00, \h01} : BankWrite(\h6000, data)

NextBank == BankLowWrite \/ BankHighWrite \/ BankModeWrite

SpecBank == InitBank /\ [][NextBank]_vars

\* C26: an MBC1 write with data & 3 = d to 0x4000-0x5FFF completes without
\* a fatal error; in ROM-banking mode it sets bits 5-6 of the ROM bank number
\* to d and leaves bits 0-4, in RAM-banking mode it sets the RAM bank number
\* to d and leaves the ROM bank number.
C26_UpperBankBits ==
    [][ret'.op = "write" /\ ret'.address \in \h4000 .. \h5FFF =>
          /\ ~panicked'
          /\ mbc1.bank_mode = "Rom" =>
                mbc1'.current_rom_bank = (mbc1.current_rom_bank % 32) + 32 * (ret'.data % 4)
          /\ mbc1.bank_mode = "Ram" =>
                /\ mbc1'.current_ram_bank = ret'.data % 4
                /\ mbc1'.current_rom_bank = mbc1.current_rom_bank]_vars

----------------------------------------------------------------------------
(* SpecTimer: Timer::tick called with the cycle counts of instructions, on  *)
(* a timer whose TAC, TIMA and TMA the program has written, with IF as the  *)
(* program left it.  An operation records the cycles added so far in        *)
(* ret.value and the number of changes of TIMA so far in ret.data.          *)

\* cycles added and changes of TIMA in one run of SpecTimer
MaxTimerClock == 280
MaxTimerSteps == 5

TimerCycles == {8, 24}
TimerControls == 0 .. 7
TimerCounters == {\hFE, \hFF}
TimerModulo == \hF0
TimerFlags == {\h00, \h1B}

InitTimer ==
    \E tac \in TimerControls, tima \in TimerCounters, flags \in TimerFlags :
       /\ Load(WriteAll(reset(MotherBoardNew(4, 4)),
                        << <<\hFF07, tac>>, <<\hFF06, TimerModulo>>, <<\hFF05, tima>>,
                           <<\hFF0F, flags>> >>))
       /\ started = TRUE

TimerTickOp ==
    \E cycle \in TimerCycles :
       /\ ~panicked
       /\ ret.value + cycle <= MaxTimerClock
       /\ ret.data < MaxTimerSteps
       /\ Commit(TimerTick(Machine, cycle))
       /\ UNCHANGED <<started, masked>>
       /\ Op("timer", 0, cycle, "None", 0,
             ret.data + (IF TimerTick(Machine, cycle).timer.tima # timer.tima THEN 1 ELSE 0),
             ret.value + cycle)

NextTimer == TimerTickOp

SpecTimer == InitTimer /\ [][NextTimer]_vars

\* the period of TIMA in cycles, by the clock select of TAC
Period(tac) ==
    CASE U8FromTAC(tac) % 4 = 0 -> 1024
      [] U8FromTAC(tac) % 4 = 1 -> 16
      [] U8FromTAC(tac) % 4 = 2 -> 64
      [] OTHER -> 256

\* C27: while the TAC enable bit is set, after any sequence of timer ticks
\* the number of TIMA steps equals floor(total cycles added / P), P being
\* 1024, 16, 64, 256 for clock select 00, 01, 10, 11; equivalently the TIMA
\* accumulator is below P after every tick.
C27_TimaStepsPerPeriod ==
    ret.op = "timer" /\ timer.tac.status = "RUNNING" =>
       /\ ret.data = ret.value \div Period(timer.tac)
       /\ timer.tima_tmp < Period(timer.tac)


\* the byte IF holds
InterruptRequests(i) == U8FromInterruptFlags(i.interrupts)

\* C28: a TIMA step taken with TIMA = 0xFF makes TIMA = TMA and sets bit 2
\* of IF, every other bit of IF unchanged; a step with TIMA < 0xFF only
\* increments TIMA and leaves IF; while the enable bit of TAC is clear a tick
\* changes neither TIMA nor IF.
C28_TimaOverflow ==
    [][ret'.op = "timer" =>
          /\ ~panicked'
          /\ timer'.tma = timer.tma /\ timer'.tac = timer.tac
          /\ CASE timer.tac.status = "RUNNING"
                  /\ timer.tima_tmp + ret'.cycle >= Period(timer.tac) /\ timer.tima = \hFF ->
                     /\ timer'.tima = timer.tma
                     /\ InterruptRequests(interruption') = Or8(InterruptRequests(interruption), 4)
               [] timer.tac.status = "RUNNING"
                  /\ timer.tima_tmp + ret'.cycle >= Period(timer.tac) /\ timer.tima < \hFF ->
                     /\ timer'.tima = timer.tima + 1
                     /\ interruption' = interruption
               [] OTHER ->
                     /\ timer'.tima = timer.tima
                     /\ interruption' = interruption]_vars

\* TIMA has just been reloaded from TMA by a tick that found IF = 0x1B
C28_Witness ==
    /\ ret.op = "timer" /\ timer.tac.status = "RUNNING"
    /\ timer.tima_tmp < ret.cycle
    /\ timer.tima = \hF0 /\ timer.tma = \hF0
    /\ InterruptRequests(interruption) = \h1F
    /\ ~panicked

----------------------------------------------------------------------------
(* C29: the sprites Sprite::oam_scan selects for a line.                    *)

MaxOamOps == 2

OamBases == {0, 9, 250}
OamSteps == {0, 7, 24}
OamAddresses == {\hFE00, \hFE01, \hFE0D, \hFE9C}
OamData == {0, 9, 16, 168, 169}
OamLines == {0, 4, 143, 255}
OamControls == {\h00, \h04, \h97}
OamWritten(address) ==
    CASE address = \hFF40 -> OamControls
      [] address = \hFF44 -> OamLines
      [] OTHER -> OamData

\* byte k of an OAM whose entry i holds Y, X, tile number i and flags 0
OamByte(base, step, k) ==
    CASE k % 4 = 0 -> (base + 4 * ((k \div 4) % 5)) % U8
      [] k % 4 = 1 -> (step * (k \div 4)) % U8
      [] k % 4 = 2 -> k \div 4
      [] OTHER -> 0

\* the OAM after the CPU wrote OamByte(base, step, k) to every 0xFE00 + k
OamPattern(base, step) ==
    [k \in {j \in 0 .. 159 : OamByte(base, step, j) # 0} |-> OamByte(base, step, k)]

InitOam ==
    \E base \in OamBases, step \in OamSteps :
       /\ Load([reset(MotherBoardNew(4, 4)) EXCEPT !.ppu.oam = OamPattern(base, step)])
       /\ started = TRUE

OamWrite ==
    \E address \in OamAddresses \cup {\hFF40, \hFF44} :
       \E data \in OamWritten(address) :
          /\ ~panicked
          /\ nops < MaxOamOps
          /\ Commit(CpuWrite(Machine, address, data))
          /\ UNCHANGED <<started, masked>>
          /\ Op("write", 0, 0, "None", address, data, 0)

OamScan ==
    /\ ~panicked
    /\ nops < MaxOamOps
    /\ Commit(Machine)
    /\ UNCHANGED <<started, masked>>
    /\ Op("oam_scan", 0, 0, "None", 0, 0, oam_scan(ppu.oam, ppu.ly, ppu.lcdc))

NextOam == OamWrite \/ OamScan

SpecOam == InitOam /\ [][NextOam]_vars

\* the 40 entries of the OAM in OAM order
OamEntries ==
    [i \in 1 .. 40 |-> [y_position |-> Get(ppu.oam, 4 * i - 4),
                        x_position |-> Get(ppu.oam, 4 * i - 3),
                        tile_number |-> Get(ppu.oam, 4 * i - 2),
                        flags |-> Get(ppu.oam, 4 * i - 1)]]

\* the sprite height LCDC bit 2 selects
OamHeight == IF Bit(CpuRead(Machine, \hFF40), 2) THEN 16 ELSE 8

OnLine(e) ==
    /\ 0 < e.x_position
    /\ e.x_position <= 168
    /\ e.y_position <= ppu.ly + 16
    /\ ppu.ly + 16 < e.y_position + OamHeight

OamMatching == SelectSeq(OamEntries, OnLine)

\* C29: oam_scan returns, in OAM order, exactly the first min(10, k) of the
\* k OAM entries with 0 < X <= 168 and Y <= LY + 16 < Y + height, the height
\* being 8 or 16 by LCDC bit 2; never more than 10 sprites and never an
\* entry that fails the test.
C29_OamScan ==
    ret.op = "oam_scan" =>
       /\ Len(ret.value) <= 10
       /\ \A j \in 1 .. Len(ret.value) : OnLine(ret.value[j])
       /\ ret.value = SubSeq(OamMatching, 1,
                             IF Len(OamMatching) < 10 THEN Len(OamMatching) ELSE 10)

\* a scan of an OAM with more than 10 matching entries, after entries that
\* fail the test
C29_Witness ==
    /\ ret.op = "oam_scan"
    /\ Len(OamMatching) > 10
    /\ Len(ret.value) = 10
    /\ ~OnLine(OamEntries[1])
    /\ ret.value[10] # OamEntries[10]

----------------------------------------------------------------------------
(* C30: the mixing of a background pixel and a sprite pixel.                *)

MaxMixOps == 2

MixFlags == {\h00, \h10, \h80, \hF0}
MixPalettes == {\hE4, \h1B}

\* impl IntoIterator for TileLine: the Color of the bits (low, high)
TileColor(low, high) ==
    CASE low = 0 /\ high = 0 -> "White"
      [] low = 1 /\ high = 0 -> "LightGray"
      [] low = 0 /\ high = 1 -> "DarkGray"
      [] OTHER -> "Black"

\* PPU::push_bg_fifo: a pixel of the background FIFO
BgPixel(low, high) ==
    [color |-> TileColor(low, high), palette |-> ppu.obp0, background_priority |-> FALSE]

\* PPU::scan_line: a pixel of the sprite FIFO
SpPixel(low, high, flags) ==
    [color |-> TileColor(low, high), palette |-> ppu.obp0,
     background_priority |-> (flags \div 128 = 1)]

\* scan_line pops one pixel of each FIFO and mixes them
MixSprite ==
    \E bl \in 0 .. 1, bh \in 0 .. 1, sl \in 0 .. 1, sh \in 0 .. 1, flags \in MixFlags :
       /\ ~panicked
       /\ nops < MaxMixOps
       /\ Commit(Machine)
       /\ UNCHANGED <<started, masked>>
       /\ Op("mix", 0, 0, "None", 2 * bh + bl, [index |-> 2 * sh + sl, flags |-> flags],
             mix(BgPixel(bl, bh), Some(SpPixel(sl, sh, flags))))

\* scan_line pops a background pixel while the sprite FIFO is empty
MixNone ==
    \E bl \in 0 .. 1, bh \in 0 .. 1 :
       /\ ~panicked
       /\ nops < MaxMixOps
       /\ Commit(Machine)
       /\ UNCHANGED <<started, masked>>
       /\ Op("bg", 0, 0, "None", 2 * bh + bl, 0, mix(BgPixel(bl, bh), None))

MixPalette ==
    \E data \in MixPalettes :
       /\ ~panicked
       /\ nops < MaxMixOps
       /\ Commit(CpuWrite(Machine, \hFF48, data))
       /\ UNCHANGED <<started, masked>>
       /\ Op("write", 0, 0, "None", \hFF48, data, 0)

NextMix == MixSprite \/ MixNone \/ MixPalette

SpecMix == InitPpu /\ [][NextMix]_vars

\* the pixel of colour index i, of the background or of a sprite of the
\* given attribute byte
IndexedPixel(i, sprite, flags) ==
    [color |-> <<"White", "LightGray", "DarkGray", "Black">>[i + 1],
     palette |-> ppu.obp0,
     background_priority |-> sprite /\ Bit(flags, 7)]

\* C30: mixing a background pixel and a sprite pixel gives the background
\* pixel if the sprite colour index is 0, or if the sprite's attribute bit 7
\* is set and the background colour index is not 0; otherwise the sprite pixel.
C30_PixelMix ==
    ret.op = "mix" =>
       ret.value = IF \/ ret.data.index = 0
                      \/ Bit(ret.data.flags, 7) /\ ret.address # 0
                   THEN IndexedPixel(ret.address, FALSE, 0)
                   ELSE IndexedPixel(ret.data.index, TRUE, ret.data.flags)

\* a sprite pixel with bg-priority hidden behind a background pixel of
\* another colour index
C30_Witness ==
    /\ ret.op = "mix"
    /\ ret.data.index = 3
    /\ Bit(ret.data.flags, 7)
    /\ ret.address = 2
    /\ ret.value = IndexedPixel(2, FALSE, 0)
    /\ ret.value # IndexedPixel(3, TRUE, ret.data.flags)

----------------------------------------------------------------------------
(* C32, C33: the tile map and tile data addresses of the background.        *)

MaxTileOps == 1

TileBases == {\h9800, \h9C00}
TileLines == {0, 8, 143}
TileColumns == {0, 8, 159}
TileScrollX == {0, 7, 200, 248, 255}
TileScrollY == {0, 5, 250}
TileNumbers == {0, 1, 32, 127, 128, 255}

TileNumberAddress ==
    \E base \in TileBases, ly \in TileLines, rx \in TileColumns,
       scx \in TileScrollX, scy \in TileScrollY :
       /\ ~panicked
       /\ nops < MaxTileOps
       /\ Commit(Machine)
       /\ UNCHANGED <<started, masked>>
       /\ Op("tile_number_address", 0, 0, "None",
             tile_number_address(base, ly, rx, scx, scy),
             [base |-> base, ly |-> ly, rx |-> rx, scx |-> scx, scy |-> scy], 0)

TileNumberToAddress ==
    \E t \in TileNumbers, method \in {"Method8000", "Method8800"},
       ly \in TileLines, scy \in TileScrollY :
       /\ ~panicked
       /\ nops < MaxTileOps
       /\ Commit(Machine)
       /\ UNCHANGED <<started, masked>>
       /\ Op("tile_number_to_address", 0, 0, "None",
             tile_number_to_address(t, method, ly, scy),
             [t |-> t, method |-> method, ly |-> ly, scy |-> scy], 0)

NextTile == TileNumberAddress \/ TileNumberToAddress

SpecTile == InitPpu /\ [][NextTile]_vars

\* C32: tile_number_address returns
\* base + ((((rx/8 + SCX/8) & 0x1F) + 32*(((LY+SCY) & 0xFF)/8)) & 0x3FF):
\* horizontal scrolling wraps within the same 32-tile row of the map.
C32_TileNumberAddress ==
    ret.op = "tile_number_address" =>
       ret.address =
          ret.data.base
             + (((((ret.data.rx \div 8) + (ret.data.scx \div 8)) % 32)
                 + 32 * (((ret.data.ly + ret.data.scy) % 256) \div 8)) % 1024)

\* the tile number t read as a signed 8-bit value
SignedTile(t) == IF t < 128 THEN t ELSE t - 256

\* C33: tile_number_to_address returns 0x8000 + 16*t + 2*((LY+SCY) mod 8)
\* with t unsigned under Method8000 and 0x9000 + 16*t + 2*((LY+SCY) mod 8)
\* with t signed under Method8800, always within 0x8000-0x97FF.
C33_TileDataAddress ==
    ret.op = "tile_number_to_address" =>
       /\ ret.address =
             (IF ret.data.method = "Method8000"
              THEN \h8000 + 16 * ret.data.t
              ELSE \h9000 + 16 * SignedTile(ret.data.t))
                + 2 * ((ret.data.ly + ret.data.scy) % 8)
       /\ ret.address \in \h8000 .. \h97FF

\* a negative tile number under Method8800 on a line inside the tile
C33_Witness ==
    /\ ret.op = "tile_number_to_address"
    /\ ret.data.method = "Method8800"
    /\ ret.data.t = 128
    /\ (ret.data.ly + ret.data.scy) % 8 = 5
    /\ ret.address = \h880A

----------------------------------------------------------------------------
(* ppu.rs: PPU::scan_line, pixel by pixel.  A pixel carries two fields the  *)
(* program does not have: `sprite', whether it was fetched for a sprite,    *)
(* and `flags', the attribute byte of that sprite.                          *)

\* impl IntoIterator for TileLine: the colours of bits 7 down to 0
TileLine(low, high) ==
    [k \in 1 .. 8 |-> TileColor(IF Bit(low, 8 - k) THEN 1 ELSE 0,
                                IF Bit(high, 8 - k) THEN 1 ELSE 0)]

\* Sprite::tile_address
tile_address(sprite, ly, scy) ==
    \h8000 + ((sprite.tile_number * 16) % U16) + 2 * ((ly + scy) % HEIGHT_TILE)

\* scan_line, `for sprite in &sprite_buffer': the pixels pushed to fifo_sprite
RECURSIVE SpriteFetch(_, _, _)
SpriteFetch(p, sprites, rx) ==
    IF sprites = <<>> THEN <<>>
    ELSE (IF Head(sprites).x_position <= rx + 8
          THEN [k \in 1 .. 8 |->
                  [color |-> TileLine(PPURead(p, tile_address(Head(sprites), p.ly, p.scy)),
                                      PPURead(p, tile_address(Head(sprites), p.ly, p.scy) + 1))[k],
                   palette |-> p.obp0,
                   background_priority |-> (Head(sprites).flags \div 128 = 1),
                   sprite |-> TRUE,
                   flags |-> Head(sprites).flags]]
          ELSE <<>>) \o SpriteFetch(p, Tail(sprites), rx)

\* PPU::fetch_bg_tile_number
fetch_bg_tile_number(p, ly, rx) ==
    PPURead(p, tile_number_address(IF p.lcdc.bg_tile_map_select = "Method9C00"
                                   THEN \h9C00 ELSE \h9800,
                                   ly, rx, p.scx, p.scy))

\* PPU::fetch_bg_tile_data and PPU::push_bg_fifo
BgFetch(p, tile_number, ly) ==
    [k \in 1 .. 8 |->
       [color |-> TileLine(PPURead(p, tile_number_to_address(tile_number,
                                          p.lcdc.tile_data_select, ly, p.scy)),
                           PPURead(p, tile_number_to_address(tile_number,
                                          p.lcdc.tile_data_select, ly, p.scy) + 1))[k],
        palette |-> p.obp0,
        background_priority |-> FALSE,
        sprite |-> FALSE,
        flags |-> 0]]

\* Color::to_rgba with WHITE, LIGHT_GRAY, DARK_GRAY and BLACK
to_rgba(color) ==
    CASE color = "White" -> <<255, 255, 255, 0>>
      [] color = "LightGray" -> <<170, 170, 170, 0>>
      [] color = "DarkGray" -> <<85, 85, 85, 0>>
      [] OTHER -> <<0, 0, 0, 0>>

\* the pixel written to the frame buffer and its colour
Written(x, pixel) == [x |-> x, pixel |-> pixel, rgba |-> to_rgba(pixel.color)]

\* scan_line, `while self.fifo_background.len() > 0'
RECURSIVE PushToLcd(_, _)
PushToLcd(discarded, st) ==
    CASE st.fifo_background = <<>> -> st
      [] st.fifo_background # <<>> /\ discarded > 0 ->
            PushToLcd(discarded - 1,
                      [st EXCEPT !.fifo_background = Tail(@),
                                 !.fifo_sprite = IF @ = <<>> THEN @ ELSE Tail(@),
                                 !.discards = Append(@, st.rx)])
      [] st.fifo_background # <<>> /\ discarded <= 0 /\ st.rx >= WIDTH_LCD ->
            [st EXCEPT !.fifo_background = Tail(@),
                       !.fifo_sprite = IF @ = <<>> THEN @ ELSE Tail(@),
                       !.panicked = TRUE]
      [] OTHER ->
            PushToLcd(0,
                      [st EXCEPT !.fifo_background = Tail(@),
                                 !.fifo_sprite = IF @ = <<>> THEN @ ELSE Tail(@),
                                 !.writes = Append(@,
                                     Written(st.rx,
                                             mix(Head(st.fifo_background),
                                                 IF st.fifo_sprite = <<>> THEN None
                                                 ELSE Some(Head(st.fifo_sprite))))),
                                 !.rx = @ + 1])

\* scan_line, mode 3: the FIFOs after the fetches at column st.rx
Fetched(p, st, pushed) ==
    [st EXCEPT !.fifo_sprite = @ \o pushed,
               !.longest = IF Len(st.fifo_sprite) + Len(pushed) > @
                           THEN Len(st.fifo_sprite) + Len(pushed) ELSE @,
               !.fifo_background = BgFetch(p, fetch_bg_tile_number(p, p.ly, st.rx), p.ly)]

\* scan_line, one pass of `loop': the break, else the fetches and the pushes
scan_line_pass(p, sprite_buffer, st) ==
    IF st.panicked \/ st.rx >= WIDTH_LCD - 1 THEN st
    ELSE PushToLcd(p.scx % 8, Fetched(p, st, SpriteFetch(p, sprite_buffer, st.rx)))

\* scan_line, `loop': n passes, the first half of them and then the rest. A
\* pass that neither breaks nor panics writes at least one of the 8 pixels it
\* fetched, so the loop has left by its pass WIDTH_LCD - 1, and a pass after
\* the break changes nothing
RECURSIVE scan_line_loop(_, _, _, _)
scan_line_loop(p, sprite_buffer, st, n) ==
    IF st.panicked \/ n <= 1 THEN scan_line_pass(p, sprite_buffer, st)
    ELSE scan_line_loop(p, sprite_buffer,
                        scan_line_loop(p, sprite_buffer, st, n \div 2), n - (n \div 2))

\* PPU::scan_line from the given sprite FIFO: the columns written with their
\* pixels, the columns at which a pixel was discarded, the FIFOs left, the
\* longest sprite FIFO, and whether column 160 of
\* the frame buffer was indexed
scan_line(p, fifo_sprite) ==
    IF p.ly >= HEIGHT_LCD
    THEN [rx |-> 0, fifo_background |-> <<>>, fifo_sprite |-> fifo_sprite,
          writes |-> <<>>, discards |-> <<>>, longest |-> 0, panicked |-> FALSE]
    ELSE scan_line_loop(p, oam_scan(p.oam, p.ly, p.lcdc),
                        [rx |-> 0, fifo_background |-> <<>>, fifo_sprite |-> fifo_sprite,
                         writes |-> <<>>, discards |-> <<>>, longest |-> 0,
                         panicked |-> FALSE],
                        WIDTH_LCD)

----------------------------------------------------------------------------
(* C31, C34, C39: the first line PPU::tick renders.                         *)

MaxLineOps == 2

LineClock == SCANLINE_CYCLE - 4
LineNumbers == {0, 143}
\* no sprite; one sprite at X = 8; two sprites at X = 8 and X = 20, the
\* second with bg-priority and OBP1
LineSprites ==
    { <<>>,
      << <<\hFE00, 16>>, <<\hFE01, 8>>, <<\hFE02, 1>> >>,
      << <<\hFE00, 16>>, <<\hFE01, 8>>, <<\hFE02, 1>>,
         <<\hFE04, 16>>, <<\hFE05, 20>>, <<\hFE06, 1>>, <<\hFE07, \h90>> >> }
\* rows 0 and 7 of tile 0 (colour indices 0 1 2 3 0 1 2 3) and of tile 1
\* (index 3 throughout)
LineTiles ==
    << <<\h8000, \h55>>, <<\h8001, \h33>>, <<\h800E, \h55>>, <<\h800F, \h33>>,
       <<\h8010, \hFF>>, <<\h8011, \hFF>>, <<\h801E, \hFF>>, <<\h801F, \hFF>> >>
LineWrites ==
    {<<\hFF43, scx>> : scx \in {0, 1, 3, 5, 7, 12}}
       \cup {<<\hFF42, 3>>, <<\hFF47, \hE4>>, <<\hFF47, \h1B>>, <<\hFF40, \h89>>,
             <<\hFE03, \h80>>}

\* the machine after reset, LineClock cycles of PPU ticks, and CPU writes of
\* two tiles, of sprites and of a visible LY
InitLine ==
    \E ly \in LineNumbers, sprites \in LineSprites :
       /\ Load([WriteAll(reset(MotherBoardNew(4, 4)),
                         LineTiles \o sprites \o << <<\hFF44, ly>> >>)
                EXCEPT !.ppu.clock = LineClock])
       /\ started = TRUE

LineWrite ==
    \E w \in LineWrites :
       /\ ~panicked
       /\ nops < MaxLineOps
       /\ Commit(CpuWrite(Machine, w[1], w[2]))
       /\ UNCHANGED <<started, masked>>
       /\ Op("write", 0, 0, "None", w[1], w[2], 0)

\* PPU::tick rendering its first line, the FIFOs empty as PPU::new left them
LineTick ==
    /\ ~panicked
    /\ nops < MaxLineOps
    /\ ppu.clock_next_target = SCANLINE_CYCLE
    /\ Op("scan_line", 0, 4, "None", ppu.ly, ppu.scx, scan_line(ppu, <<>>))
    /\ Commit(PPUTick(Machine, 4))
    /\ UNCHANGED <<started, masked>>

NextLine == LineWrite \/ LineTick

SpecLine == InitLine /\ [][NextLine]_vars

\* the tick panics exactly when the rendering indexes column 160
LineTickPanics == ret.op = "scan_line" => (panicked <=> ret.value.panicked)

\* the shade a palette maps colour index i to
Shade(palette, i) == (palette \div (4 ^ i)) % 4

\* the colour index of a pixel
ColorIndex(pixel) ==
    CASE pixel.color = "White" -> 0
      [] pixel.color = "LightGray" -> 1
      [] pixel.color = "DarkGray" -> 2
      [] OTHER -> 3

\* BGP for a background pixel, OBP1 or OBP0 by attribute bit 4 for a sprite pixel
ApplicablePalette(pixel) ==
    IF ~pixel.sprite THEN ppu.bgp
    ELSE IF Bit(pixel.flags, 4) THEN ppu.obp1 ELSE ppu.obp0

\* the fixed table from shades to RGBA
ShadeRgba == << <<255, 255, 255, 0>>, <<170, 170, 170, 0>>, <<85, 85, 85, 0>>, <<0, 0, 0, 0>> >>

\* C31: every pixel written to the frame buffer has the shade its applicable
\* palette maps its colour index to, shade = (palette >> 2*i) & 3, with BGP
\* for a background pixel and OBP0 or OBP1 by attribute bit 4 for a sprite
\* pixel, converted to RGBA by the fixed table.
C31_PaletteApplied ==
    ret.op = "scan_line" =>
       \A k \in 1 .. Len(ret.value.writes) :
          ret.value.writes[k].rgba =
             ShadeRgba[Shade(ApplicablePalette(ret.value.writes[k].pixel),
                             ColorIndex(ret.value.writes[k].pixel)) + 1]

\* C34: rendering a visible line discards exactly SCX mod 8 pixels, all at
\* the left edge, then writes each of the columns 0..159 of the row exactly
\* once, in order, and never indexes a column outside the row.
C34_FineScroll ==
    ret.op = "scan_line" /\ ret.address < HEIGHT_LCD =>
       /\ ~ret.value.panicked
       /\ ret.value.discards = [k \in 1 .. (ret.data % 8) |-> 0]
       /\ [k \in 1 .. Len(ret.value.writes) |-> ret.value.writes[k].x]
             = [k \in 1 .. WIDTH_LCD |-> k - 1]

\* C34 holds of the lines rendered with SCX a multiple of 8
C34_NoFineScroll ==
    ret.op = "scan_line" /\ ret.address < HEIGHT_LCD /\ ret.data % 8 = 0 =>
       /\ ~ret.value.panicked
       /\ ret.value.discards = <<>>
       /\ [k \in 1 .. Len(ret.value.writes) |-> ret.value.writes[k].x]
             = [k \in 1 .. WIDTH_LCD |-> k - 1]

\* C39: when the rendering of a line ends both pixel FIFOs are empty, and
\* the sprite FIFO never held more than 8 pixels.
C39_FifosDrained ==
    ret.op = "scan_line" =>
       /\ ret.value.fifo_background = <<>>
       /\ ret.value.fifo_sprite = <<>>
       /\ ret.value.longest <= 8

----------------------------------------------------------------------------
(* C35: CALL a16, RET, RST n and RETI.                                      *)

MaxCallOps == 2

CallStarts == {\h0150, \h7FFD}
CallStacks == {\hFFFE, \hD000, \hC001, \h0100}
CallTargets == {\h0300, \h7FF0}
RstOpcodes == {\hC7, \hCF, \hD7, \hDF, \hE7, \hEF, \hF7, \hFF}

InitCall ==
    \E pc \in CallStarts, sp \in CallStacks :
       /\ Load(CpuWrite(CpuWrite([reset(MotherBoardNew(4, 4))
                                     EXCEPT !.registers.pc = pc,
                                            !.registers.sp = sp],
                                 wrapping_add(sp, 1), \h12), sp, \h34))
       /\ started = TRUE

CallA16 ==
    /\ nops < MaxCallOps
    /\ \E a16 \in CallTargets : Exec(<<\hCD, a16 % \h100, a16 \div \h100>>)

RetOrReti ==
    /\ nops < MaxCallOps
    /\ \E opcode \in {\hC9, \hD9} : Exec(<<opcode, 0, 0>>)

RstN ==
    /\ nops < MaxCallOps
    /\ \E opcode \in RstOpcodes : Exec(<<opcode, 0, 0>>)

NextCall == CallA16 \/ RetOrReti \/ RstN

SpecCall == InitCall /\ [][NextCall]_vars

\* the step pushes address q with SP = s before it: high byte at s - 1, low
\* byte at s - 2, SP decreased by 2
Pushes(q) ==
    /\ registers'.sp = wrapping_sub(registers.sp, 2)
    /\ CpuRead(Machine', wrapping_sub(registers.sp, 1)) = q \div \h100
    /\ CpuRead(Machine', wrapping_sub(registers.sp, 2)) = q % \h100

\* the operand byte at the address: the cartridge's byte in ROM, else what
\* the bus holds there
OperandAt(address, byte) ==
    IF address \in \h0000 .. \h7FFF THEN byte ELSE CpuRead(Machine, address)

\* the effects of CALL a16, RET after CALL, RST n and RETI on a step that
\* services no interrupt, the pushes being claimed for SP in sps only
CallEffect(sps) ==
    ret'.op = "tick" /\ ret'.interrupt = "None" /\ ~is_halted =>
       /\ ret'.opcode = \hCD /\ registers.sp \in sps =>
             /\ ~panicked'
             /\ Pushes(wrapping_add(registers.pc, 3))
             /\ registers'.pc = OperandAt(wrapping_add(registers.pc, 2), ret'.value) * \h100
                                + OperandAt(wrapping_add(registers.pc, 1), ret'.data)
       /\ ret'.opcode = \hC9 /\ ret.op = "tick" /\ ret.opcode = \hCD
          /\ ret.interrupt = "None" /\ before.registers.sp \in sps =>
             /\ ~panicked'
             /\ registers'.pc = wrapping_add(before.registers.pc, 3)
             /\ registers'.sp = before.registers.sp
       /\ ret'.opcode \in RstOpcodes /\ registers.sp \in sps =>
             /\ ~panicked'
             /\ Pushes(wrapping_add(registers.pc, 1))
             /\ \E n \in 0 .. 7 : ret'.opcode = \hC7 + 8 * n /\ registers'.pc = 8 * n
       /\ ret'.opcode = \hD9 =>
             /\ ~panicked'
             /\ registers'.pc = CpuRead(Machine, wrapping_add(registers.sp, 1)) * \h100
                                + CpuRead(Machine, registers.sp)
             /\ registers'.sp = wrapping_add(registers.sp, 2)
             /\ ime'

\* C35 (amended): with SP - 1 and SP - 2 in memory that stores CPU writes,
\* CALL a16 at p pushes p + 3 (high byte at SP - 1, low byte at SP - 2, SP
\* decreased by 2) and sets PC = a16; a RET that follows it restores
\* PC = p + 3 and the SP before the CALL; RST n pushes the address after the
\* RST and sets PC = 8n; RETI pops PC as RET does and sets IME.
C35_CallRet == [][CallEffect(StoringStacks)]_vars

\* C35 as stated, for every SP
C35_CallRetAnySp == [][CallEffect(0 .. U16 - 1)]_vars

\* a RET after a CALL from 0x7FFD is back at 0x8000 with the SP of before
C35_Witness ==
    /\ ret.op = "tick" /\ ret.opcode = \hC9 /\ ret.interrupt = "None"
    /\ before.ret.op = "tick" /\ before.ret.opcode = \hCD /\ before.ret.interrupt = "None"
    /\ registers.pc = \h8000
    /\ registers.sp = \hD000
    /\ CpuRead(Machine, \hCFFF) = \h80
    /\ ~panicked

----------------------------------------------------------------------------
(* C36: ADC A,x and SBC A,x.                                                *)

MaxCarryOps == 1

CarryOperands == {\h00, \h01, \h0F, \h7C, \hF0, \hFF}

InitCarry ==
    \E a \in 0 .. U8 - 1, x \in CarryOperands, c \in BOOLEAN :
       /\ Load([reset(MotherBoardNew(4, 4))
                EXCEPT !.registers.a = a, !.registers.b = x, !.registers.f.c = c])
       /\ started = TRUE

AdcAR == nops < MaxCarryOps /\ \E opcode \in {\h88, \h8F} : Exec(<<opcode, 0, 0>>)
AdcAD8 == nops < MaxCarryOps /\ \E d8 \in CarryOperands : Exec(<<\hCE, d8, 0>>)
SbcAR == nops < MaxCarryOps /\ \E opcode \in {\h98, \h9F} : Exec(<<opcode, 0, 0>>)

NextCarry == AdcAR \/ AdcAD8 \/ SbcAR

SpecCarry == InitCarry /\ [][NextCarry]_vars

\* the operand x of the instruction that ran and the carry-in c
CarryX ==
    CASE ret.opcode \in {\h88, \h98} -> before.registers.b
      [] ret.opcode \in {\h8F, \h9F} -> before.registers.a
      [] OTHER -> ret.data
CarryIn == IF before.registers.f.c THEN 1 ELSE 0

\* C36: ADC A,x leaves A = (A+x+c) mod 256, H = ((A&0xF)+(x&0xF)+c > 0xF),
\* C = (A+x+c > 0xFF), N = 0; SBC A,x leaves A = (A-x-c) mod 256,
\* H = ((A&0xF) < (x&0xF)+c), C = (A < x+c), N = 1; Z = (result = 0) in
\* both; x = 0xFF with c = 1 included.
C36_CarryInOps ==
    ret.op = "tick" /\ ret.interrupt = "None" =>
       /\ ~panicked
       /\ ret.opcode \in {\h88, \h8F, \hCE} =>
             /\ registers.a = (before.registers.a + CarryX + CarryIn) % 256
             /\ registers.f.h = ((before.registers.a % 16) + (CarryX % 16) + CarryIn > 15)
             /\ registers.f.c = (before.registers.a + CarryX + CarryIn > 255)
             /\ registers.f.n = FALSE
             /\ registers.f.z = (registers.a = 0)
       /\ ret.opcode \in {\h98, \h9F} =>
             /\ registers.a = (before.registers.a - CarryX - CarryIn + 512) % 256
             /\ registers.f.h = ((before.registers.a % 16) < (CarryX % 16) + CarryIn)
             /\ registers.f.c = (before.registers.a < CarryX + CarryIn)
             /\ registers.f.n = TRUE
             /\ registers.f.z = (registers.a = 0)

\* SBC A,B with B = 0xFF and carry-in 1 from A = 0x10: A unchanged, H and C set
C36_Witness ==
    /\ ret.op = "tick" /\ ret.opcode = \h98 /\ ret.interrupt = "None"
    /\ before.registers.b = \hFF /\ before.registers.f.c /\ before.registers.a = \h10
    /\ registers.a = \h10 /\ registers.f.h /\ registers.f.c /\ registers.f.n

----------------------------------------------------------------------------
(* C37, C38: the banks MBC1 selects, over SpecMbc1.                         *)

\* C37: after any sequence of MBC1 control writes the selected ROM bank
\* number is less than the cartridge's ROM bank count, so a read in
\* 0x4000-0x7FFF returns a byte of an existing bank and never faults; a read
\* in 0x0000-0x3FFF returns bank 0.
C37_RomBankExists ==
    /\ ~panicked => mbc1.current_rom_bank < mbc1.num_rom_banks
    /\ ret.op = "read" /\ ret.address \in \h4000 .. \h7FFF =>
          /\ ~panicked
          /\ ret.value = RomImage(mbc1.current_rom_bank, ret.address - \h4000)
    /\ ret.op = "read" /\ ret.address \in \h0000 .. \h3FFF =>
          /\ ~panicked
          /\ ret.value = RomImage(0, ret.address)

\* C38: after any sequence of MBC1 control writes a read or write in
\* 0xA000-0xBFFF is ignored or addresses an existing RAM bank, also with no
\* RAM bank and with a single one: it never indexes a missing bank.
C38_RamBankExists ==
    ret.op \in {"read", "write"} /\ ret.address \in \hA000 .. \hBFFF => ~panicked

----------------------------------------------------------------------------
(* C40: the lines of the input thread and the reads of 0xFF00.              *)

\* the lines the input thread has sent before the CPU first reads 0xFF00
KeyQueues ==
    {<<>>, << <<"a", "\n">> >>, << <<"a", "\n">>, <<"j", "\n">> >>,
     << <<>>, <<"b", "\n">> >>}

InitKeys ==
    \E lines \in KeyQueues :
       /\ Load([reset(MotherBoardNew(4, 4)) EXCEPT !.joypad.rx = lines])
       /\ started = TRUE

SpecKeys == InitKeys /\ [][NextJoypad]_vars

\* the key of a line: its first character, none for the empty line
LineKey(line) == IF line = <<>> THEN "" ELSE Head(line)

\* C40: reads of 0xFF00 consume the lines in the order sent and each at most
\* once; a read with nothing latched and an empty queue returns at once with
\* the low nibble all 1s; a received key stays latched, and the queue
\* untouched, for every later read until the CPU writes 0x30 to 0xFF00,
\* after which the next read takes the next queued line.
C40_KeysInOrder ==
    [][/\ ~panicked'
       /\ ret'.op = "read" /\ joypad.cache = "" /\ joypad.rx = <<>> =>
             /\ ret'.value % 16 = 15
             /\ joypad' = joypad
       /\ ret'.op = "read" /\ joypad.cache = "" /\ joypad.rx # <<>> =>
             /\ joypad'.rx = Tail(joypad.rx)
             /\ joypad'.cache = LineKey(Head(joypad.rx))
       /\ ret'.op = "read" /\ joypad.cache # "" =>
             /\ joypad'.rx = joypad.rx
             /\ joypad'.cache = joypad.cache
       /\ ret'.op = "write" =>
             /\ joypad'.rx = joypad.rx
             /\ joypad'.cache = IF ret'.data = \h30 THEN "" ELSE joypad.cache
       /\ ret'.op = "key" =>
             /\ joypad'.cache = joypad.cache
             /\ Len(joypad'.rx) = Len(joypad.rx) + 1
             /\ SubSeq(joypad'.rx, 1, Len(joypad.rx)) = joypad.rx]_vars

\* key a was read and latched, 0x30 was written, and the next read took the
\* next line and latched its key j
C40_Witness ==
    /\ ret.op = "read" /\ nops = 3
    /\ before.ret.op = "write" /\ before.ret.data = \h30
    /\ joypad.cache = "j"
    /\ joypad.rx = <<>>
    /\ ret.value % 16 = 15

====
